---- MODULE Spec2Model ----
(***************************************************************************)
(* A model of agentkit's embedded local agent runtime and its MCP          *)
(* front-end: the workspace sandbox (platforms/local/tools.go), the agent  *)
(* loop (platforms/local/agent.go), the runner (platforms/local/runner.go) *)
(* and the JSON-RPC serve loop (mcp/server.go).                            *)
(*                                                                         *)
(* Text is modelled as a sequence of pieces: a path is a sequence of       *)
(* one-character strings, a formatted message is the sequence of its       *)
(* format pieces and arguments.  The empty string is <<>>.                 *)
(***************************************************************************)
EXTENDS Integers, Sequences, FiniteSets, TLC

\* ------------------------------------------------------------------ bounds

\* Longest input path handed to the sandbox, in characters.
MaxPathLen == 6

\* The characters input paths are drawn from.
PathChars == {"/", ".", "w", "a"}

\* ---------------------------------------------------------------- strings

RECURSIVE StringsOver(_, _)
\* Every string of exactly n characters over the alphabet cs.
StringsOver(cs, n) ==
    IF n = 0 THEN {<<>>}
    ELSE {Append(s, c) : s \in StringsOver(cs, n - 1), c \in cs}

\* Every string of at most n characters over the alphabet cs.
StringsUpTo(cs, n) == UNION {StringsOver(cs, k) : k \in 0..n}

\* strings.HasPrefix
HasPrefix(s, prefix) ==
    /\ Len(s) >= Len(prefix)
    /\ SubSeq(s, 1, Len(prefix)) = prefix

RECURSIVE SplitAcc(_, _, _, _)
SplitAcc(s, sep, cur, acc) ==
    IF s = <<>> THEN Append(acc, cur)
    ELSE IF Head(s) = sep THEN SplitAcc(Tail(s), sep, <<>>, Append(acc, cur))
    ELSE SplitAcc(Tail(s), sep, Append(cur, Head(s)), acc)

\* strings.Split(s, sep) for a one-character separator: the pieces between
\* separators, empty pieces included; never an empty list.
Split(s, sep) == SplitAcc(s, sep, <<>>, <<>>)

RECURSIVE JoinElems(_, _)
\* strings.Join(elems, sep)
JoinElems(elems, sep) ==
    IF elems = <<>> THEN <<>>
    ELSE IF Len(elems) = 1 THEN elems[1]
    ELSE elems[1] \o <<sep>> \o JoinElems(Tail(elems), sep)

\* --------------------------------------------------- path/filepath (Unix)

DotDot == <<".", ".">>
Dot == <<".">>

\* filepath.IsAbs
IsAbs(p) == p # <<>> /\ p[1] = "/"

RECURSIVE CleanElems(_, _, _)
\* The element stack filepath.Clean builds: empty and "." elements are
\* dropped, ".." removes the element before it, is dropped at the root of a
\* rooted path and is kept at the front of a relative one.
CleanElems(elems, rooted, out) ==
    IF elems = <<>> THEN out
    ELSE LET e == Head(elems)
             rest == Tail(elems) IN
         IF e = <<>> \/ e = Dot THEN CleanElems(rest, rooted, out)
         ELSE IF e = DotDot THEN
             IF out # <<>> /\ out[Len(out)] # DotDot
                 THEN CleanElems(rest, rooted, SubSeq(out, 1, Len(out) - 1))
             ELSE IF rooted THEN CleanElems(rest, rooted, out)
             ELSE CleanElems(rest, rooted, Append(out, e))
         ELSE CleanElems(rest, rooted, Append(out, e))

\* The end of filepath.Clean: a rooted path gets its "/", an empty relative
\* one becomes ".".
CleanJoin(rooted, body) ==
    IF rooted THEN <<"/">> \o body
    ELSE IF body = <<>> THEN Dot
    ELSE body

\* filepath.Clean
Clean(p) ==
    CleanJoin(IsAbs(p), JoinElems(CleanElems(Split(p, "/"), IsAbs(p), <<>>), "/"))

\* filepath.Join(a, b): empty elements are ignored, the rest joined by "/"
\* and cleaned.
Join(a, b) ==
    IF a = <<>> /\ b = <<>> THEN <<>>
    ELSE IF a = <<>> THEN Clean(b)
    ELSE IF b = <<>> THEN Clean(a)
    ELSE Clean(a \o <<"/">> \o b)

\* The non-empty elements of a cleaned path.
Elems(p) == SelectSeq(Split(p, "/"), LAMBDA e : e # <<>>)

RECURSIVE CommonLen(_, _)
\* How many leading elements two element lists share.
CommonLen(a, b) ==
    IF a = <<>> \/ b = <<>> \/ Head(a) # Head(b) THEN 0
    ELSE 1 + CommonLen(Tail(a), Tail(b))

\* filepath.Rel on element lists that share their first n elements: one ".."
\* per element of base past the common prefix, then the rest of targ; a
\* base that still holds ".." there cannot be left.
RelElems(be, te, n) ==
    IF n < Len(be) /\ be[n + 1] = DotDot
        THEN [err |-> TRUE, path |-> <<>>]
    ELSE [err |-> FALSE,
          path |-> JoinElems([i \in 1..(Len(be) - n) |-> DotDot]
                             \o SubSeq(te, n + 1, Len(te)), "/")]

\* filepath.Rel's elements of a cleaned path: none for ".".
RelElemsOf(p) == IF p = Dot THEN <<>> ELSE Elems(p)

\* filepath.Rel on cleaned paths: an absolute and a relative path cannot be
\* made relative to each other.
RelClean(base, targ) ==
    IF targ = base THEN [err |-> FALSE, path |-> Dot]
    ELSE IF IsAbs(base) # IsAbs(targ) THEN [err |-> TRUE, path |-> <<>>]
    ELSE RelElems(RelElemsOf(base), RelElemsOf(targ),
                  CommonLen(RelElemsOf(base), RelElemsOf(targ)))

\* filepath.Rel(basepath, targpath): [err, path].
Rel(basepath, targpath) == RelClean(Clean(basepath), Clean(targpath))

\* The process's working directory, which filepath.Abs joins a relative
\* path onto.  validatePath only ever hands Abs an absolute path.
Cwd == <<"/">>

\* filepath.Abs
Abs(p) == IF IsAbs(p) THEN Clean(p) ELSE Join(Cwd, p)

\* ------------------------------------------------------ workspace sandbox

\* ToolSet.workspace: the root, made absolute by Config.Validate.
Workspace == <<"/", "w">>

\* A prefix test that lets every relative path through.
EscapesPrefix_Never(relPath) == FALSE

\* The prefix test of validatePath on the path relative to the workspace.
EscapesPrefix(relPath) == HasPrefix(relPath, DotDot)

\* validatePath's verdict on the absolute path, given its path relative to
\* the workspace.
validateRel(absPath, rel) ==
    IF rel.err THEN [err |-> TRUE, path |-> <<>>]
    ELSE IF EscapesPrefix(rel.path) THEN [err |-> TRUE, path |-> <<>>]
    ELSE [err |-> FALSE, path |-> absPath]

\* validatePath from the absolute path on.
validateAbs(absPath) == validateRel(absPath, Rel(Workspace, absPath))

\* ToolSet.validatePath: [err, path].
validatePath(path) ==
    validateAbs(Abs(IF ~IsAbs(path) THEN Join(Workspace, path) ELSE path))

\* filepath.Dir of a path with elements es.
DirOf(p, es) ==
    IF es = <<>> THEN (IF IsAbs(p) THEN <<"/">> ELSE Dot)
    ELSE Clean((IF IsAbs(p) THEN <<"/">> ELSE <<>>)
               \o JoinElems(SubSeq(es, 1, Len(es) - 1), "/"))

\* filepath.Dir: the path without its last element.
Dir(p) == DirOf(p, Elems(Clean(p)))

\* What the filesystem may answer to os.Stat in ReadFile.
StatOutcomes == {"missing", "dir", "large", "file"}

\* What the filesystem may answer to MkdirAll / WriteFile in WriteFile.
WriteOutcomes == {"mkdirfail", "writefail", "ok"}

\* What the filesystem may answer to os.ReadDir in ListDirectory.
ReadDirOutcomes == {"fail", "ok"}

\* The content of the one regular file of the workspace.
FileContent == <<"hello">>

SbNone ==
    [op |-> "none", arg |-> <<>>, done |-> FALSE, err |-> "", path |-> <<>>,
     touched |-> {}, content |-> <<>>]

\* A call of primitive op on path arg that has not run yet.
SbCall(op, arg) == [SbNone EXCEPT !.op = op, !.arg = arg]

\* The outcome of a primitive: its error ("" for none), the path it got from
\* validatePath, the paths it handed to the OS and the content it returned.
SbResult(op, arg, err, path, touched, content) ==
    [op |-> op, arg |-> arg, done |-> TRUE, err |-> err, path |-> path,
     touched |-> touched, content |-> content]

\* ReadFile after validatePath answered v.
ReadValidated(path, v, stat) ==
    IF v.err THEN SbResult("read", path, "path outside workspace", <<>>, {}, <<>>)
    ELSE IF stat = "missing"
        THEN SbResult("read", path, "cannot access file", v.path, {v.path}, <<>>)
    ELSE IF stat = "dir"
        THEN SbResult("read", path, "path is a directory", v.path, {v.path}, <<>>)
    ELSE IF stat = "large"
        THEN SbResult("read", path, "file too large", v.path, {v.path}, <<>>)
    ELSE SbResult("read", path, "", v.path, {v.path}, FileContent)

\* ToolSet.ReadFile, given what os.Stat answers for the validated path.
ReadFile(path, stat) == ReadValidated(path, validatePath(path), stat)

\* WriteFile after validatePath answered v; dir is the file's directory.
WriteValidated(path, v, dir, outcome) ==
    IF v.err THEN SbResult("write", path, "path outside workspace", <<>>, {}, <<>>)
    ELSE IF outcome = "mkdirfail"
        THEN SbResult("write", path, "failed to create directory",
                      v.path, {dir}, <<>>)
    ELSE IF outcome = "writefail"
        THEN SbResult("write", path, "failed to write file",
                      v.path, {dir, v.path}, <<>>)
    ELSE SbResult("write", path, "", v.path, {dir, v.path}, <<>>)

\* ToolSet.WriteFile, given what MkdirAll and os.WriteFile answer.
WriteFile(path, outcome) ==
    WriteValidated(path, validatePath(path), Dir(validatePath(path).path), outcome)

\* ListDirectory after validatePath answered v.
ListValidated(path, v, outcome) ==
    IF v.err THEN SbResult("list", path, "path outside workspace", <<>>, {}, <<>>)
    ELSE IF outcome = "fail"
        THEN SbResult("list", path, "failed to read directory",
                      v.path, {v.path}, <<>>)
    ELSE SbResult("list", path, "", v.path, {v.path}, <<>>)

\* ToolSet.ListDirectory, given what os.ReadDir answers.
ListDirectory(path, outcome) == ListValidated(path, validatePath(path), outcome)

\* What filepath.Glob may answer for a pattern: a malformed pattern, no
\* match, or matches, which for a pattern with ".." may lie outside the
\* workspace.
GlobOutcomes ==
    {[err |-> TRUE, matches |-> <<>>],
     [err |-> FALSE, matches |-> <<>>],
     [err |-> FALSE, matches |-> <<Workspace \o <<"/", "a">>, <<"/", "a">>>>]}

\* GlobFiles' filter on one match, given its path relative to the workspace:
\* kept, as that relative path, unless it begins with "..".
GlobKeep(rel) ==
    IF rel.err \/ HasPrefix(rel.path, DotDot) THEN <<>> ELSE <<rel.path>>

RECURSIVE GlobFilter(_)
\* GlobFiles' filter over the matches.
GlobFilter(matches) ==
    IF matches = <<>> THEN <<>>
    ELSE GlobKeep(Rel(Workspace, Head(matches))) \o GlobFilter(Tail(matches))

\* GlobFiles once the pattern is made absolute.
GlobFull(full, glob) ==
    IF glob.err
        THEN [err |-> <<"invalid glob pattern">>, files |-> <<>>, touched |-> {full}]
    ELSE [err |-> <<>>, files |-> GlobFilter(glob.matches), touched |-> {full}]

\* ToolSet.GlobFiles, given what filepath.Glob answers: [err, files, touched].
GlobFiles(pattern, glob) ==
    GlobFull(IF ~IsAbs(pattern) THEN Join(Workspace, pattern) ELSE pattern, glob)

\* What GrepFiles may find: a pattern that does not compile, a walk that
\* fails, no match, or a match in the file "a".
GrepOutcomes ==
    {[badRegex |-> TRUE, walkErr |-> FALSE, matches |-> <<>>],
     [badRegex |-> FALSE, walkErr |-> TRUE, matches |-> <<>>],
     [badRegex |-> FALSE, walkErr |-> FALSE, matches |-> <<>>],
     [badRegex |-> FALSE, walkErr |-> FALSE,
      matches |-> <<[File |-> <<"a">>, Line |-> 1, Content |-> <<"hello">>]>>]}

\* ToolSet.GrepFiles, given what the walk of the workspace finds:
\* [err, matches, touched].
GrepFiles(pattern, filePattern, grep) ==
    IF grep.badRegex
        THEN [err |-> <<"invalid regex pattern">>, matches |-> <<>>, touched |-> {}]
    ELSE IF grep.walkErr
        THEN [err |-> <<"search failed">>, matches |-> <<>>, touched |-> {Workspace}]
    ELSE [err |-> <<>>, matches |-> grep.matches, touched |-> {Workspace}]

\* exec.Cmd.Run's possible outcomes for RunCommand: the process could not be
\* started, or it ran and exited with a code.
ProcOutcomes ==
    {[started |-> FALSE, stdout |-> <<>>, stderr |-> <<>>, exit |-> 0],
     [started |-> TRUE, stdout |-> <<"so">>, stderr |-> <<>>, exit |-> 0],
     [started |-> TRUE, stdout |-> <<>>, stderr |-> <<"se">>, exit |-> 1]}

\* A RunCommand for which a non-zero exit is an error.
RunCommand_ExitIsError(command, args, proc) ==
    IF ~proc.started \/ proc.exit # 0
        THEN [err |-> <<"command execution failed">>,
              result |-> [Command |-> <<>>, Args |-> <<>>, Stdout |-> <<>>,
                          Stderr |-> <<>>, ExitCode |-> 0]]
    ELSE [err |-> <<>>,
          result |-> [Command |-> command, Args |-> args, Stdout |-> proc.stdout,
                      Stderr |-> proc.stderr, ExitCode |-> proc.exit]]

\* ToolSet.RunCommand: [err, result]; a non-zero exit is data, only a process
\* that did not start is an error.
RunCommand(command, args, proc) ==
    IF ~proc.started
        THEN [err |-> <<"command execution failed">>,
              result |-> [Command |-> <<>>, Args |-> <<>>, Stdout |-> <<>>,
                          Stderr |-> <<>>, ExitCode |-> 0]]
    ELSE [err |-> <<>>,
          result |-> [Command |-> command, Args |-> args, Stdout |-> proc.stdout,
                      Stderr |-> proc.stderr, ExitCode |-> proc.exit]]

\* ToolSet.RunShell
RunShell(shellCmd, proc) == RunCommand(<<"sh">>, <<<<"-c">>, shellCmd>>, proc)

\* ------------------------------------------------------------- agent loop

\* The ceiling of the agent loop.
maxIterations == 10

\* Config.Agents: the agents the runner is configured with (names unique,
\* tools known, as Config.Validate requires).
AgentConfigs ==
    <<[Name |-> <<"x">>, Description |-> <<"dx">>, Instructions |-> <<"ix">>,
       Tools |-> <<"read">>],
      [Name |-> <<"y">>, Description |-> <<"dy">>, Instructions |-> <<"iy">>,
       Tools |-> <<"read", "shell">>]>>

\* NewEmbeddedAgent
NewEmbeddedAgent(cfg) ==
    [name |-> cfg.Name, description |-> cfg.Description,
     instructions |-> cfg.Instructions, tools |-> cfg.Tools]

\* NewRunner: the registry, one agent per configured name.
NewRunner ==
    [n \in {AgentConfigs[i].Name : i \in DOMAIN AgentConfigs} |->
        NewEmbeddedAgent(CHOOSE c \in {AgentConfigs[i] : i \in DOMAIN AgentConfigs} :
                             c.Name = n)]

\* AgentResult
AgentResult(agent, input, output, success, error) ==
    [Agent |-> agent, Input |-> input, Output |-> output, Success |-> success,
     Error |-> error]

\* What the filesystem answers to os.Stat for a path while tools run: the
\* workspace holds one regular file, "a".
FsStat(abs) ==
    IF abs = Workspace \o <<"/", "a">> THEN "file"
    ELSE IF abs = Workspace THEN "dir"
    ELSE "missing"

\* What running a shell command yields while tools run.
FsProc == [started |-> TRUE, stdout |-> <<"so">>, stderr |-> <<>>, exit |-> 0]

\* json.Marshal of a string.
JSONString(str) == <<"\"">> \o str \o <<"\"">>

RECURSIVE JSONStrings(_)
\* json.Marshal of the elements of a list of strings, comma-separated.
JSONStrings(strs) ==
    IF strs = <<>> THEN <<>>
    ELSE IF Len(strs) = 1 THEN JSONString(strs[1])
    ELSE JSONString(strs[1]) \o <<",">> \o JSONStrings(Tail(strs))

\* json.Marshal of a CommandResult; "args" is tagged omitempty.
JSONCommandResult(r) ==
    <<"{\"command\":">> \o JSONString(r.Command)
    \o (IF r.Args = <<>> THEN <<>>
        ELSE <<",\"args\":[">> \o JSONStrings(r.Args) \o <<"]">>)
    \o <<",\"stdout\":">> \o JSONString(r.Stdout)
    \o <<",\"stderr\":">> \o JSONString(r.Stderr)
    \o <<",\"exit_code\":", ToString(r.ExitCode), "}">>

\* ReadTool.Execute's answer for what ReadFile returned: [err, json], the
\* error text (<<>> for none) and the JSON of the result.
ReadToolResult(r) ==
    IF r.err # "" THEN [err |-> <<r.err>>, json |-> <<>>]
    ELSE [err |-> <<>>, json |-> JSONString(r.content)]

\* WriteTool.Execute's answer for what WriteFile returned.
WriteToolResult(r) ==
    IF r.err # "" THEN [err |-> <<r.err>>, json |-> <<>>]
    ELSE [err |-> <<>>, json |-> <<"null">>]

\* ShellTool.Execute's answer for what RunShell returned.
ShellToolResult(r) ==
    IF r.err # <<>> THEN [err |-> r.err, json |-> <<>>]
    ELSE [err |-> <<>>, json |-> JSONCommandResult(r.result)]

\* What a tool's Execute answers, with the sandbox primitive it ran to get
\* there ("" when it ran none).
Ran(r, op) == [err |-> r.err, json |-> r.json, ran |-> op]

\* Tool.Execute of ReadTool, WriteTool and ShellTool: [err, json, ran].
ToolExecute(name, args) ==
    IF name = "read" THEN
        IF "path" \notin DOMAIN args
            THEN Ran([err |-> <<"path argument required">>, json |-> <<>>], "")
        ELSE Ran(ReadToolResult(ReadFile(args.path, FsStat(validatePath(args.path).path))),
                 "read")
    ELSE IF name = "write" THEN
        IF "path" \notin DOMAIN args
            THEN Ran([err |-> <<"path argument required">>, json |-> <<>>], "")
        ELSE IF "content" \notin DOMAIN args
            THEN Ran([err |-> <<"content argument required">>, json |-> <<>>], "")
        ELSE Ran(WriteToolResult(WriteFile(args.path, "ok")), "write")
    ELSE
        IF "command" \notin DOMAIN args
            THEN Ran([err |-> <<"command argument required">>, json |-> <<>>], "")
        ELSE Ran(ShellToolResult(RunShell(args.command, FsProc)), "shell")

\* An executeTool that runs whatever tool the call names, whether or not the
\* agent was given it.
executeTool_AnyTool(tools, tc) == ToolExecute(tc.Name, tc.Arguments)

\* EmbeddedAgent.executeTool: the first of the agent's tools with the call's
\* name runs; no such tool is an error.
executeTool(tools, tc) ==
    IF \E i \in DOMAIN tools : tools[i] = tc.Name
        THEN ToolExecute(tc.Name, tc.Arguments)
    ELSE Ran([err |-> <<"unknown tool: ", tc.Name>>, json |-> <<>>], "")

\* The sandbox primitives the tool calls of one response run.
PrimitivesRun(tools, resp) ==
    {executeTool(tools, resp.ToolCalls[j]).ran : j \in DOMAIN resp.ToolCalls} \ {""}

\* Message
Message(role, content, name, toolID) ==
    [Role |-> role, Content |-> content, Name |-> name, ToolID |-> toolID]

\* A tool-role content that carries the result only, an error leaving it
\* empty.
ToolContent_Silent(r) == r.json

\* The content of a tool-role message for what executeTool returned.
ToolContent(r) == IF r.err # <<>> THEN <<"Error: ">> \o r.err ELSE r.json

\* The tool-role message the loop appends for one tool call.
ToolMessage(tools, tc) ==
    Message("tool", ToolContent(executeTool(tools, tc)), tc.Name, tc.ID)

\* The messages of an iteration with the answers to the tool calls in
\* reverse order.
IterationMessages_Reversed(tools, resp) ==
    <<Message("assistant", resp.Content, "", "")>>
    \o [j \in DOMAIN resp.ToolCalls |->
           ToolMessage(tools, resp.ToolCalls[Len(resp.ToolCalls) + 1 - j])]

\* The messages one iteration of the loop appends: the assistant's, then one
\* per tool call, in the order of the calls.
IterationMessages(tools, resp) ==
    <<Message("assistant", resp.Content, "", "")>>
    \o [j \in DOMAIN resp.ToolCalls |-> ToolMessage(tools, resp.ToolCalls[j])]

\* A loop condition that admits one more iteration.
LoopContinues_OneMore(i) == i <= maxIterations

\* The loop condition of EmbeddedAgent.Invoke.
LoopContinues(i) == i < maxIterations

\* A test that ends the loop only when there are no tool calls, whatever the
\* done flag says.
IsFinal_NoCallsOnly(resp) == Len(resp.ToolCalls) = 0

\* The test that ends the loop with the response's text.
IsFinal(resp) == Len(resp.ToolCalls) = 0 \/ resp.Done

\* The result of a loop that ran out of iterations.
CeilingResult(name, input) ==
    AgentResult(name, input, <<"Max iterations reached">>, FALSE,
                <<"agent loop exceeded maximum iterations">>)

\* What LLMClient.Complete may answer: an error, a final text, or tool calls
\* (with or without the done flag).
ToolCallList ==
    <<[ID |-> "c1", Name |-> "read", Arguments |-> [path |-> <<"a">>]],
      [ID |-> "c2", Name |-> "shell", Arguments |-> [command |-> <<"ls">>]]>>

LLMResponses ==
    {[err |-> <<"llm down">>, Content |-> <<>>, ToolCalls |-> <<>>, Done |-> FALSE],
     [err |-> <<>>, Content |-> <<"o1">>, ToolCalls |-> <<>>, Done |-> FALSE],
     [err |-> <<>>, Content |-> <<"o2">>, ToolCalls |-> <<>>, Done |-> TRUE],
     [err |-> <<>>, Content |-> <<"o3">>, ToolCalls |-> ToolCallList, Done |-> TRUE],
     [err |-> <<>>, Content |-> <<"t">>, ToolCalls |-> ToolCallList, Done |-> FALSE]}

\* ----------------------------------------------------------------- runner

\* AgentTask
AgentTask(agent, input) == [Agent |-> agent, Input |-> input]

\* What Runner.Invoke returns: a result (<<>> for nil, else <<result>>) and an
\* error text (<<>> for nil).
InvokeReturn(result, err) == [result |-> result, err |-> err]

\* An answer that reports the unknown name as a failed result, not an error.
AgentNotFound_AsResult(agentName) ==
    InvokeReturn(<<AgentResult(agentName, <<>>, <<>>, FALSE,
                               <<"agent not found: ">> \o agentName)>>, <<>>)

\* Runner.Invoke's answer for a name that is not registered.
AgentNotFound(agentName) == InvokeReturn(<<>>, <<"agent not found: ">> \o agentName)

\* An answer that drops the error and reports an empty success.
InvocationFailed_Swallowed(llmErr) ==
    InvokeReturn(<<AgentResult(<<>>, <<>>, <<>>, TRUE, <<>>)>>, <<>>)

\* Runner.Invoke's answer when EmbeddedAgent.Invoke returns an error.
InvocationFailed(llmErr) ==
    InvokeReturn(<<>>, <<"agent invocation failed: ", "LLM completion failed: ">>
                       \o llmErr)

\* A result for a failed task that reports success.
FailedResult_Success(task, err) ==
    AgentResult(task.Agent, task.Input, <<>>, TRUE, err)

\* The failed AgentResult InvokeParallel and InvokeSequential put in a task's
\* place when Runner.Invoke returned an error.
FailedResult(task, err) == AgentResult(task.Agent, task.Input, <<>>, FALSE, err)

\* The result a task's slot gets from what Runner.Invoke returned.
SlotResult(task, ret) ==
    IF ret.err # <<>> THEN FailedResult(task, ret.err) ELSE ret.result[1]

\* A write that fills the slots in completion order: the first free one.
StoreResult_FirstFree(slots, idx, result) ==
    [slots EXCEPT ![CHOOSE i \in DOMAIN slots :
                        /\ slots[i] = <<>>
                        /\ \A j \in 1..(i - 1) : slots[j] # <<>>] = <<result>>]

\* InvokeParallel's write of a result into the slot of its task.
StoreResult(slots, idx, result) == [slots EXCEPT ![idx] = <<result>>]

\* A wait that does not wait.
WaitReturns_AtOnce(counter) == TRUE

\* wg.Wait returns when the counter is zero.
WaitReturns(counter) == counter = 0

\* An input that never carries the context.
SeqInput_Bare(ctx, i, task) == task.Input

\* InvokeSequential: the input of the task at (0-based) index i.
SeqInput(ctx, i, task) ==
    IF ctx # <<>> /\ i > 0
        THEN <<"Previous context:\n">> \o ctx \o <<"\n\nCurrent task:\n">>
             \o task.Input
    ELSE task.Input

\* A context that takes every result's output, failed or not.
SeqContext_Always(ctx, task, result) ==
    ctx \o <<"\n[">> \o task.Agent \o <<"]: ">> \o result.Output \o <<"\n">>

\* InvokeSequential: the context after a task's result.
SeqContext(ctx, task, result) ==
    IF result.Success
        THEN ctx \o <<"\n[">> \o task.Agent \o <<"]: ">> \o result.Output \o <<"\n">>
    ELSE ctx

\* ------------------------------------------------------------- MCP server

\* Standard JSON-RPC error codes.
ErrParseError == -32700
ErrMethodNotFound == -32601
ErrInvalidParams == -32602

\* A tool argument that is absent, or not a string, reads as "".
Arg(args, key) == IF key \in DOMAIN args THEN args[key] ELSE <<>>

\* No arguments: every key the handlers read is absent.
NoArgs ==
    [agent |-> <<>>, agents |-> <<>>, input |-> <<>>, path |-> <<>>,
     pattern |-> <<>>, file_pattern |-> <<>>, command |-> <<>>]

\* CallToolParams; valid says whether the request's params unmarshal into it.
CallToolParams(valid, name, args) == [valid |-> valid, Name |-> name, Arguments |-> args]

NoParams == CallToolParams(FALSE, "", NoArgs)

\* Request: the raw id (<<>> when the member is absent), the method and the
\* params.
Request(id, method, params) == [ID |-> id, Method |-> method, Params |-> params]

\* One line of the input stream: empty, not parseable into a Request, longer
\* than the scanner's buffer allows (and not JSON either), or a request.
EmptyLine == [kind |-> "empty", req |-> Request(<<>>, "", NoParams)]
MalformedLine == [kind |-> "malformed", req |-> Request(<<>>, "", NoParams)]
OversizedLine == [kind |-> "oversized", req |-> Request(<<>>, "", NoParams)]
RequestLine(req) == [kind |-> "request", req |-> req]

\* CallToolResult: the text of its one content block and the isError flag.
CallToolResult(text, isError) == [Text |-> text, IsError |-> isError]

\* NewErrorContent / NewTextContent
ErrorText(err) == <<"Error: ">> \o err

\* A method's result object: what it is, and for a tool call the
\* CallToolResult.
MethodResult(kind, call) == [kind |-> kind, call |-> call]

NoCall == CallToolResult(<<>>, FALSE)

\* ErrorResponse
ErrorObject(code, message) == [Code |-> code, Message |-> message]

\* Response: the id, the result (<<>> for nil) and the error (<<>> for nil).
Response(id, result, error) == [ID |-> id, Result |-> result, Error |-> error]

\* An errorResponse that loses the request's id.
errorResponse_NilID(id, code, message) ==
    Response(<<>>, <<>>, <<ErrorObject(code, message)>>)

\* Server.errorResponse
errorResponse(id, code, message) ==
    Response(id, <<>>, <<ErrorObject(code, message)>>)

\* A result response.
resultResponse(id, result) == Response(id, <<result>>, <<>>)

\* Whether json.Marshal writes a member tagged omitempty whose value is a
\* byte slice, a pointer or an interface: only when it is not empty.
KeepsMember(value) == value # <<>>

\* json.Marshal of a Response, as writeResponse writes it: the members of the
\* JSON object.  "jsonrpc" is always written; "id", "result" and "error" are
\* tagged omitempty.
Marshal(resp) ==
    [jsonrpc |-> "2.0",
     hasID |-> KeepsMember(resp.ID), id |-> resp.ID,
     hasResult |-> KeepsMember(resp.Result), result |-> resp.Result,
     hasError |-> KeepsMember(resp.Error), error |-> resp.Error]

\* The tools handleToolsList advertises.
ToolCatalog ==
    <<"invoke_agent", "invoke_parallel", "list_agents", "read_file",
      "glob_files", "grep_files", "run_command">>

RECURSIVE TrimLeft(_)
TrimLeft(str) ==
    IF str # <<>> /\ Head(str) = " " THEN TrimLeft(Tail(str)) ELSE str

RECURSIVE TrimRight(_)
TrimRight(str) ==
    IF str # <<>> /\ str[Len(str)] = " "
        THEN TrimRight(SubSeq(str, 1, Len(str) - 1))
    ELSE str

\* strings.TrimSpace
TrimSpace(str) == TrimRight(TrimLeft(str))

\* callInvokeParallel: the tasks for a comma-separated list of agent names.
ParallelTasks(agentsStr, input) ==
    LET agentNames == Split(agentsStr, ",") IN
    [i \in DOMAIN agentNames |-> AgentTask(TrimSpace(agentNames[i]), input)]

\* callInvokeAgent's result for what Runner.Invoke returned.
InvokeAgentResult(ret) ==
    IF ret.err # <<>> THEN CallToolResult(ErrorText(ret.err), TRUE)
    ELSE CallToolResult(ret.result[1].Output, ~ret.result[1].Success)

RECURSIVE ParallelOutput(_)
\* callInvokeParallel: the text for the results, in the order of the list.
ParallelOutput(rs) ==
    IF rs = <<>> THEN <<>>
    ELSE LET r == Head(rs)[1] IN
         <<"## ">> \o r.Agent
         \o <<" [", IF r.Success THEN "SUCCESS" ELSE "FAILED", "]\n\n">>
         \o r.Output \o <<"\n\n">> \o ParallelOutput(Tail(rs))

\* A result that flags the batch only when every sub-agent failed.
InvokeParallelResult_AllFailed(rs) ==
    CallToolResult(ParallelOutput(rs),
                   \A i \in DOMAIN rs : ~rs[i][1].Success)

\* callInvokeParallel's result for what InvokeParallel returned.
InvokeParallelResult(rs) ==
    CallToolResult(ParallelOutput(rs),
                   \E i \in DOMAIN rs : ~rs[i][1].Success)

RECURSIVE AgentListing(_, _)
\* callListAgents: one section per agent, in the order the map yields them.
AgentListing(registry, order) ==
    IF order = <<>> THEN <<>>
    ELSE <<"## ">> \o registry[Head(order)].name \o <<"\n">>
         \o registry[Head(order)].description \o <<"\n\n">>
         \o AgentListing(registry, Tail(order))

\* callListAgents
callListAgents(registry, order) ==
    CallToolResult(<<"# Available Agents\n\n">> \o AgentListing(registry, order),
                   FALSE)

\* A result that drops ReadFile's error and reports the (empty) content.
ReadFileResult_Swallow(r) == CallToolResult(r.content, FALSE)

\* callReadFile's result for what ReadFile returned.
ReadFileResult(r) ==
    IF r.err # "" THEN CallToolResult(ErrorText(<<r.err>>), TRUE)
    ELSE CallToolResult(r.content, FALSE)

\* callReadFile
callReadFile(args, stat) ==
    IF Arg(args, "path") = <<>>
        THEN CallToolResult(ErrorText(<<"path is required">>), TRUE)
    ELSE ReadFileResult(ReadFile(Arg(args, "path"), stat))

\* callGlobFiles' text for the files found.
GlobOutput(text) ==
    IF text = <<>> THEN CallToolResult(<<"No files found">>, FALSE)
    ELSE CallToolResult(text, FALSE)

\* callGlobFiles' result for what GlobFiles returned.
GlobFilesResult(r) ==
    IF r.err # <<>> THEN CallToolResult(ErrorText(r.err), TRUE)
    ELSE GlobOutput(JoinElems(r.files, "\n"))

\* callGlobFiles
callGlobFiles(args, glob) ==
    IF Arg(args, "pattern") = <<>>
        THEN CallToolResult(ErrorText(<<"pattern is required">>), TRUE)
    ELSE GlobFilesResult(GlobFiles(Arg(args, "pattern"), glob))

RECURSIVE GrepLines(_)
\* callGrepFiles: one "file:line: content" line per match.
GrepLines(matches) ==
    IF matches = <<>> THEN <<>>
    ELSE Head(matches).File \o <<":", ToString(Head(matches).Line), ": ">>
         \o Head(matches).Content \o <<"\n">> \o GrepLines(Tail(matches))

\* callGrepFiles' text for the matches found.
GrepOutput(text) ==
    IF text = <<>> THEN CallToolResult(<<"No matches found">>, FALSE)
    ELSE CallToolResult(text, FALSE)

\* callGrepFiles' result for what GrepFiles returned.
GrepFilesResult(r) ==
    IF r.err # <<>> THEN CallToolResult(ErrorText(r.err), TRUE)
    ELSE GrepOutput(GrepLines(r.matches))

\* callGrepFiles
callGrepFiles(args, grep) ==
    IF Arg(args, "pattern") = <<>>
        THEN CallToolResult(ErrorText(<<"pattern is required">>), TRUE)
    ELSE GrepFilesResult(GrepFiles(Arg(args, "pattern"), Arg(args, "file_pattern"),
                                   grep))

\* CommandResult.Success
Success(result) == result.ExitCode = 0

\* callRunCommand's text: the standard output, then the standard error under
\* its heading.
CommandOutput(result) ==
    result.Stdout
    \o (IF result.Stderr = <<>> THEN <<>>
        ELSE (IF result.Stdout # <<>> THEN <<"\n">> ELSE <<>>)
             \o <<"STDERR:\n">> \o result.Stderr)

\* callRunCommand's result for what RunShell returned.
RunCommandResult(r) ==
    IF r.err # <<>> THEN CallToolResult(ErrorText(r.err), TRUE)
    ELSE CallToolResult(CommandOutput(r.result), ~Success(r.result))

\* callRunCommand
callRunCommand(args, proc) ==
    IF Arg(args, "command") = <<>>
        THEN CallToolResult(ErrorText(<<"command is required">>), TRUE)
    ELSE RunCommandResult(RunShell(Arg(args, "command"), proc))

\* A resources/list result that lists an agent as a resource.
ListResourcesResult_Seeded ==
    [kind |-> "resources/list", call |-> NoCall, Resources |-> <<"agent://x">>]

\* ListResourcesResult{Resources: []ResourceInfo{}}: the result object of
\* handleResourcesList, with its empty list.
ListResourcesResult ==
    [kind |-> "resources/list", call |-> NoCall, Resources |-> <<>>]

\* ListPromptsResult{Prompts: []PromptInfo{}}: the result object of
\* handlePromptsList, with its empty list.
ListPromptsResult ==
    [kind |-> "prompts/list", call |-> NoCall, Prompts |-> <<>>]

\* Whether handling the request calls into the runner's agents: a tools/call
\* of invoke_agent or invoke_parallel whose required arguments are present.
CallsAgents(req) ==
    /\ req.Method = "tools/call"
    /\ req.Params.valid
    /\ \/ /\ req.Params.Name = "invoke_agent"
          /\ Arg(req.Params.Arguments, "agent") # <<>>
          /\ Arg(req.Params.Arguments, "input") # <<>>
       \/ /\ req.Params.Name = "invoke_parallel"
          /\ Arg(req.Params.Arguments, "agents") # <<>>
          /\ Arg(req.Params.Arguments, "input") # <<>>

\* handleToolsCall, for the calls that do not reach an agent (an invoke_agent
\* or invoke_parallel call here lacks a required argument).  env is what the
\* map iteration, the filesystem and the shell answer.
handleToolsCall(req, registry, env) ==
    LET name == req.Params.Name
        args == req.Params.Arguments IN
    IF ~req.Params.valid
        THEN errorResponse(req.ID, ErrInvalidParams, "Invalid params")
    ELSE IF name = "invoke_agent"
        THEN resultResponse(req.ID, MethodResult("tools/call",
                 CallToolResult(ErrorText(<<"agent and input are required">>), TRUE)))
    ELSE IF name = "invoke_parallel"
        THEN resultResponse(req.ID, MethodResult("tools/call",
                 CallToolResult(ErrorText(<<"agents and input are required">>), TRUE)))
    ELSE IF name = "list_agents"
        THEN resultResponse(req.ID, MethodResult("tools/call",
                 callListAgents(registry, env.order)))
    ELSE IF name = "read_file"
        THEN resultResponse(req.ID, MethodResult("tools/call",
                 callReadFile(args, env.stat)))
    ELSE IF name = "glob_files"
        THEN resultResponse(req.ID, MethodResult("tools/call",
                 callGlobFiles(args, env.glob)))
    ELSE IF name = "grep_files"
        THEN resultResponse(req.ID, MethodResult("tools/call",
                 callGrepFiles(args, env.grep)))
    ELSE IF name = "run_command"
        THEN resultResponse(req.ID, MethodResult("tools/call",
                 callRunCommand(args, env.proc)))
    ELSE errorResponse(req.ID, ErrMethodNotFound, "Unknown tool")

\* A dispatch without the "initialized" case: the notification falls through
\* to the default and is answered like an unknown method.
handleRequest_NoNotification(req, registry, env) ==
    IF req.Method \in {"initialize", "tools/list", "resources/list", "prompts/list"}
        THEN <<resultResponse(req.ID, MethodResult(req.Method, NoCall))>>
    ELSE IF req.Method = "tools/call"
        THEN <<handleToolsCall(req, registry, env)>>
    ELSE <<errorResponse(req.ID, ErrMethodNotFound, "Method not found")>>

\* handleRequest: the response (<<>> for none) to a request that does not
\* reach an agent.
handleRequest(req, registry, env) ==
    IF req.Method = "initialize"
        THEN <<resultResponse(req.ID, MethodResult("initialize", NoCall))>>
    ELSE IF req.Method = "initialized" THEN <<>>
    ELSE IF req.Method = "tools/list"
        THEN <<resultResponse(req.ID, MethodResult("tools/list", NoCall))>>
    ELSE IF req.Method = "tools/call"
        THEN <<handleToolsCall(req, registry, env)>>
    ELSE IF req.Method = "resources/list"
        THEN <<resultResponse(req.ID, ListResourcesResult)>>
    ELSE IF req.Method = "resources/read"
        THEN <<errorResponse(req.ID, ErrMethodNotFound, "Resources not supported")>>
    ELSE IF req.Method = "prompts/list"
        THEN <<resultResponse(req.ID, ListPromptsResult)>>
    ELSE IF req.Method = "prompts/get"
        THEN <<errorResponse(req.ID, ErrMethodNotFound, "Prompts not supported")>>
    ELSE <<errorResponse(req.ID, ErrMethodNotFound, "Method not found")>>

\* A flag that any request sets.
InitializedAfter_AnyRequest(flag, method) == TRUE

\* Server.initialized after a request is handled: handleInitialize sets it,
\* no other handler writes it.
InitializedAfter(flag, method) == IF method = "initialize" THEN TRUE ELSE flag

\* Server.writeResponse on a stream that accepts the line.
writeResponse(w, resp) == Append(w, Marshal(resp))

\* A writeError that writes nothing.
writeError_Silent(w, id, code, message) == w

\* Server.writeError
writeError(w, id, code, message) == writeResponse(w, errorResponse(id, code, message))

\* A write that puts the response on the stream twice.
WriteIfAny_Twice(w, resp) ==
    IF resp = <<>> THEN w ELSE writeResponse(writeResponse(w, resp[1]), resp[1])

\* serve writes the response handleRequest returned, if it returned one.
WriteIfAny(w, resp) == IF resp = <<>> THEN w ELSE writeResponse(w, resp[1])

\* The paths a caller may pass to a sandbox primitive.
Paths == StringsUpTo(PathChars, MaxPathLen)

\* ------------------------------------------------------------------ state

VARIABLES
    sb,             \* the sandbox primitive a direct caller runs, and its outcome
    input,          \* the server's input stream, as lines
    pos,            \* how many lines the scanner has delivered
    out,            \* the server's output stream, as marshalled responses
    initialized,    \* Server.initialized
    spc,            \* where serve is: "off", "scan", "call", "done"
    req,            \* the request whose tool call is running (<<>> for none)
    ctx,            \* serve's context: "live" or "cancelled"
    agents,         \* Runner.agents
    rc,             \* the runner call in progress
    results,        \* its results list
    errors,         \* InvokeParallel's errors list
    wg,             \* InvokeParallel's WaitGroup counter
    contextBuilder, \* InvokeSequential's accumulated context
    act,            \* the activations of Runner.Invoke, one per task in flight
    orch            \* the call of ExecuteOrchestrated in progress

sbVars == <<sb>>
srvVars == <<input, pos, out, initialized, spc, req, ctx>>
runVars == <<agents, rc, results, errors, wg, contextBuilder, act, orch>>
vars == <<sb, input, pos, out, initialized, spc, req, ctx, agents, rc, results,
          errors, wg, contextBuilder, act, orch>>

\* No server is running.
ServerOff ==
    /\ input = <<>> /\ pos = 0 /\ out = <<>>
    /\ initialized = FALSE /\ spc = "off" /\ req = <<>> /\ ctx = "live"

\* A runner call: which entry point, its tasks, where it is and its loop index.
RunnerCall(kind, tasks, pc, i) == [kind |-> kind, tasks |-> tasks, pc |-> pc, i |-> i]

NoCallInProgress == RunnerCall("none", <<>>, "idle", 0)

\* A call of ExecuteOrchestrated: its task, where it is ("none", "entry",
\* "running", "returned") and what it returned (<<>> before that).
Orchestration(task, pc, ret) == [task |-> task, pc |-> pc, ret |-> ret]

\* OrchestratedTask
OrchestratedTask(name, agentNames, in, mode) ==
    [Name |-> name, Agents |-> agentNames, Input |-> in, Mode |-> mode]

NoOrchestration == Orchestration(OrchestratedTask(<<>>, <<>>, <<>>, ""), "none", <<>>)

\* A freshly built runner on which nothing is being invoked.
RunnerIdle ==
    /\ agents = NewRunner
    /\ rc = NoCallInProgress
    /\ results = <<>> /\ errors = <<>> /\ wg = 0
    /\ contextBuilder = <<>> /\ act = <<>>
    /\ orch = NoOrchestration

\* One activation of Runner.Invoke: where it is ("idle" before its goroutine
\* is launched, "start", "loop", "ret" once Invoke has returned, "stored",
\* "done"), its arguments, the agent loop's messages and index, what Invoke
\* returned (<<>> before that), and five history fields: the number of
\* completions requested so far, the number of tools executed so far,
\* whether every completion answered with tool calls and no done flag, the
\* responses of the iterations the running loop has been through, and the
\* sandbox primitives run so far.
Activation(pc, agentName, in) ==
    [pc |-> pc, agent |-> agentName, input |-> in, messages |-> <<>>, i |-> 0,
     ncalls |-> 0, nexec |-> 0, stub |-> TRUE, hist |-> <<>>, ops |-> {},
     ret |-> <<>>]

\* ------------------------------------------------- Runner.Invoke, per task

\* A Runner.Invoke that registers an agent under a name it does not find.
RunnerInvoke_Registers(w) ==
    /\ act[w].pc = "start"
    /\ IF act[w].agent \notin DOMAIN agents
           THEN /\ act' = [act EXCEPT ![w].pc = "ret",
                                      ![w].ret = <<AgentNotFound(act[w].agent)>>]
                /\ agents' = [n \in DOMAIN agents \cup {act[w].agent} |->
                                 IF n \in DOMAIN agents THEN agents[n]
                                 ELSE NewEmbeddedAgent(
                                          [Name |-> n, Description |-> <<>>,
                                           Instructions |-> <<>>, Tools |-> <<>>])]
       ELSE /\ act' = [act EXCEPT
                    ![w].pc = "loop",
                    ![w].messages =
                        <<Message("system", agents[act[w].agent].instructions, "", ""),
                          Message("user", act[w].input, "", "")>>]
            /\ UNCHANGED agents
    /\ UNCHANGED <<sbVars, srvVars, orch, rc, results, errors, wg, contextBuilder>>

\* Runner.Invoke looks the agent up: an unknown name returns the not-found
\* error; a known one enters EmbeddedAgent.Invoke, which builds the initial
\* messages.
RunnerInvoke(w) ==
    /\ act[w].pc = "start"
    /\ IF act[w].agent \notin DOMAIN agents
           THEN act' = [act EXCEPT ![w].pc = "ret",
                                   ![w].ret = <<AgentNotFound(act[w].agent)>>]
       ELSE act' = [act EXCEPT
                ![w].pc = "loop",
                ![w].messages =
                    <<Message("system", agents[act[w].agent].instructions, "", ""),
                      Message("user", act[w].input, "", "")>>]
    /\ UNCHANGED <<sbVars, srvVars, orch, agents, rc, results, errors, wg, contextBuilder>>

\* A history kept in one place for every invocation: each loop appends to
\* the history of the first.
OwnHistory_Shared(activations, w) == activations[1].messages

\* The history an invocation's loop passes to the model and appends to: the
\* messages slice local to that call of EmbeddedAgent.Invoke.
OwnHistory(activations, w) == activations[w].messages

\* One iteration of the agent loop: the completion resp arrives; an error or
\* a final response returns, anything else appends the assistant's message,
\* runs every tool call and appends its message.
AgentComplete(w, resp) ==
    /\ act[w].pc = "loop"
    /\ LoopContinues(act[w].i)
    /\ LET a == act[w]
           name == agents[a.agent].name IN
       IF resp.err # <<>>
           THEN act' = [act EXCEPT ![w] = [a EXCEPT
                    !.pc = "ret", !.messages = <<>>, !.i = 0, !.hist = <<>>,
                    !.ncalls = a.ncalls + 1, !.stub = FALSE,
                    !.ret = <<InvocationFailed(resp.err)>>]]
       ELSE IF IsFinal(resp)
           THEN act' = [act EXCEPT ![w] = [a EXCEPT
                    !.pc = "ret", !.messages = <<>>, !.i = 0, !.hist = <<>>,
                    !.ncalls = a.ncalls + 1, !.stub = FALSE,
                    !.ret = <<InvokeReturn(
                                <<AgentResult(name, a.input, resp.Content, TRUE, <<>>)>>,
                                <<>>)>>]]
       ELSE act' = [act EXCEPT ![w] = [a EXCEPT
                    !.messages = OwnHistory(act, w)
                                 \o IterationMessages(agents[a.agent].tools, resp),
                    !.i = a.i + 1,
                    !.ncalls = a.ncalls + 1,
                    !.nexec = a.nexec + Len(resp.ToolCalls),
                    !.hist = Append(a.hist, resp),
                    !.ops = a.ops \cup PrimitivesRun(agents[a.agent].tools, resp)]]
    /\ UNCHANGED <<sbVars, srvVars, orch, agents, rc, results, errors, wg, contextBuilder>>

\* The loop condition fails: EmbeddedAgent.Invoke returns the ceiling result.
AgentLoopExit(w) ==
    /\ act[w].pc = "loop"
    /\ ~LoopContinues(act[w].i)
    /\ act' = [act EXCEPT ![w] = [act[w] EXCEPT
            !.pc = "ret", !.messages = <<>>, !.i = 0, !.hist = <<>>,
            !.ret = <<InvokeReturn(
                        <<CeilingResult(agents[act[w].agent].name, act[w].input)>>,
                        <<>>)>>]]
    /\ UNCHANGED <<sbVars, srvVars, orch, agents, rc, results, errors, wg, contextBuilder>>

\* --------------------------------------------------------- InvokeParallel

\* The slots InvokeParallel allocates: one per task, all nil.
EmptySlots(tasks) == [i \in DOMAIN tasks |-> <<>>]

\* InvokeParallel's loop launches the goroutine of the next task.
ParallelSpawn ==
    /\ rc.kind = "parallel" /\ rc.pc = "spawn"
    /\ wg' = wg + 1
    /\ act' = [act EXCEPT ![rc.i + 1].pc = "start"]
    /\ rc' = [rc EXCEPT !.i = rc.i + 1,
                        !.pc = IF rc.i + 1 = Len(rc.tasks) THEN "wait" ELSE "spawn"]
    /\ UNCHANGED <<sbVars, srvVars, orch, agents, results, errors, contextBuilder>>

\* A goroutine whose Runner.Invoke returned writes its task's slot (and, for
\* an error, the errors list).
WorkerStore(w) ==
    /\ rc.kind = "parallel"
    /\ act[w].pc = "ret"
    /\ LET ret == act[w].ret[1] IN
       /\ results' = StoreResult(results, w, SlotResult(rc.tasks[w], ret))
       /\ errors' = IF ret.err # <<>> THEN [errors EXCEPT ![w] = ret.err] ELSE errors
    /\ act' = [act EXCEPT ![w].pc = "stored", ![w].ncalls = 0, ![w].nexec = 0,
                           ![w].stub = TRUE, ![w].ops = {}]
    /\ UNCHANGED <<sbVars, srvVars, orch, agents, rc, wg, contextBuilder>>

\* The goroutine's deferred wg.Done.
WorkerDone(w) ==
    /\ rc.kind = "parallel"
    /\ act[w].pc = "stored"
    /\ wg' = wg - 1
    /\ act' = [act EXCEPT ![w].pc = "done"]
    /\ UNCHANGED <<sbVars, srvVars, orch, agents, rc, results, errors, contextBuilder>>

\* wg.Wait returns and InvokeParallel returns the results list.
ParallelWait ==
    /\ rc.kind = "parallel" /\ rc.pc = "wait"
    /\ WaitReturns(wg)
    /\ rc' = [rc EXCEPT !.pc = "returned"]
    /\ UNCHANGED <<sbVars, srvVars, orch, agents, results, errors, wg, contextBuilder, act>>

\* ------------------------------------------------------- InvokeSequential

\* The loop of InvokeSequential builds the next task's input and calls
\* Runner.Invoke with it.
SeqCall ==
    /\ rc.kind = "sequential" /\ rc.pc = "loop"
    /\ rc.i < Len(rc.tasks)
    /\ LET task == rc.tasks[rc.i + 1] IN
       act' = <<Activation("start", task.Agent, SeqInput(contextBuilder, rc.i, task))>>
    /\ rc' = [rc EXCEPT !.pc = "running"]
    /\ UNCHANGED <<sbVars, srvVars, orch, agents, results, errors, wg, contextBuilder>>

\* Runner.Invoke returned: the result (a failed one for an error) is appended
\* and, if it succeeded, its output joins the context.
SeqCollect ==
    /\ rc.kind = "sequential" /\ rc.pc = "running"
    /\ act[1].pc = "ret"
    /\ LET task == rc.tasks[rc.i + 1]
           result == SlotResult(task, act[1].ret[1]) IN
       /\ results' = Append(results, <<result>>)
       /\ contextBuilder' = SeqContext(contextBuilder, task, result)
    /\ rc' = [rc EXCEPT !.pc = "loop", !.i = rc.i + 1]
    /\ act' = <<>>
    /\ UNCHANGED <<sbVars, srvVars, orch, agents, errors, wg>>

\* The loop is over: InvokeSequential returns the results.
SeqReturn ==
    /\ rc.kind = "sequential" /\ rc.pc = "loop"
    /\ rc.i = Len(rc.tasks)
    /\ rc' = [rc EXCEPT !.pc = "returned"]
    /\ UNCHANGED <<sbVars, srvVars, orch, agents, results, errors, wg, contextBuilder, act>>

\* ------------------------------------------------------------ Server.serve

\* The orders in which ranging over Runner.agents may yield the names.
AgentOrders == {<<<<"x">>, <<"y">>>>, <<<<"y">>, <<"x">>>>}

\* What the environment answers while one request is handled.  A request
\* consults at most one of the five, so the answers vary one at a time.
DefaultEnv ==
    [order |-> <<<<"x">>, <<"y">>>>, stat |-> "file",
     proc |-> [started |-> TRUE, stdout |-> <<"so">>, stderr |-> <<>>, exit |-> 0],
     glob |-> [err |-> FALSE, matches |-> <<>>],
     grep |-> [badRegex |-> FALSE, walkErr |-> FALSE, matches |-> <<>>]]

Envs ==
    {[DefaultEnv EXCEPT !.order = o] : o \in AgentOrders}
    \cup {[DefaultEnv EXCEPT !.stat = st] : st \in StatOutcomes}
    \cup {[DefaultEnv EXCEPT !.proc = pr] : pr \in ProcOutcomes}
    \cup {[DefaultEnv EXCEPT !.glob = g] : g \in GlobOutcomes}
    \cup {[DefaultEnv EXCEPT !.grep = g] : g \in GrepOutcomes}

\* What fmt.Fprintln leaves on the output stream: the stream with the line
\* written when the write succeeds, the stream as it was when it fails.
Fprintln(w, written, ok) == IF ok THEN written ELSE w

\* The scanner delivers the next line and serve handles it: an empty line is
\* skipped, an unparseable one answered with a parse error, a request handed
\* to handleRequest and its response, if any, written.  A call of
\* invoke_agent or invoke_parallel enters the runner; its response is written
\* when the runner returns.  ok tells whether the output stream takes the
\* write: writeError drops the write's error and serve only logs it, so the
\* loop goes on to the next line either way.  A line is handled only if the
\* context is not done when the scanner delivers it.
ServeHandle(env, ok) ==
    /\ spc = "scan"
    /\ pos < Len(input)
    /\ ctx = "live"
    /\ input[pos + 1].kind # "oversized"
    /\ pos' = pos + 1
    /\ LET line == input[pos + 1]
           args == line.req.Params.Arguments IN
       IF line.kind = "empty"
           THEN UNCHANGED <<out, initialized, spc, req, runVars>>
       ELSE IF line.kind = "malformed"
           THEN /\ out' = Fprintln(out, writeError(out, <<>>, ErrParseError, "Parse error"), ok)
                /\ UNCHANGED <<initialized, spc, req, runVars>>
       ELSE IF CallsAgents(line.req)
           THEN /\ spc' = "call"
                /\ req' = <<line.req>>
                /\ UNCHANGED <<out, initialized, agents, contextBuilder, orch>>
                /\ IF line.req.Params.Name = "invoke_agent"
                       THEN /\ rc' = RunnerCall("invoke",
                                         <<AgentTask(args.agent, args.input)>>,
                                         "running", 0)
                            /\ act' = <<Activation("start", args.agent, args.input)>>
                            /\ UNCHANGED <<results, errors, wg>>
                   ELSE LET tasks == ParallelTasks(args.agents, args.input) IN
                        /\ rc' = RunnerCall("parallel", tasks, "spawn", 0)
                        /\ results' = EmptySlots(tasks)
                        /\ errors' = EmptySlots(tasks)
                        /\ wg' = 0
                        /\ act' = [i \in DOMAIN tasks |->
                                      Activation("idle", tasks[i].Agent, tasks[i].Input)]
       ELSE /\ out' = Fprintln(out, WriteIfAny(out, handleRequest(line.req, agents, env)), ok)
            /\ initialized' = InitializedAfter(initialized, line.req.Method)
            /\ UNCHANGED <<spc, req, runVars>>
    /\ UNCHANGED <<sbVars, input, ctx>>

\* serve handles the next line over an output stream that takes the write.
ServeLine(env) == ServeHandle(env, TRUE)

\* The runner returned to callInvokeAgent or callInvokeParallel: the tool
\* result is formatted and handleToolsCall's response written.  Formatting
\* a nil result is a nil dereference, which ends the process.  ok tells
\* whether the output stream takes the write; serve logs a failed write and
\* goes on.
ServeReturn(ok) ==
    /\ spc = "call"
    /\ \/ rc.kind = "invoke" /\ act[1].pc = "ret"
       \/ rc.kind = "parallel" /\ rc.pc = "returned"
    /\ IF rc.kind = "parallel" /\ \E i \in DOMAIN results : results[i] = <<>>
           THEN /\ spc' = "crashed"
                /\ UNCHANGED <<out, req, runVars>>
       ELSE /\ out' = Fprintln(out,
                          writeResponse(out,
                              resultResponse(req[1].ID,
                                  MethodResult("tools/call",
                                      IF rc.kind = "invoke"
                                          THEN InvokeAgentResult(act[1].ret[1])
                                      ELSE InvokeParallelResult(results)))),
                          ok)
            /\ spc' = "scan"
            /\ req' = <<>>
            /\ rc' = NoCallInProgress
            /\ results' = <<>>
            /\ errors' = <<>>
            /\ act' = <<>>
            /\ UNCHANGED <<agents, wg, contextBuilder, orch>>
    /\ UNCHANGED <<sbVars, input, pos, initialized, ctx>>

\* The runner returned and the output stream takes the response.
ServeReply == ServeReturn(TRUE)

\* The next line does not fit the scanner's buffer: Scan reports false and
\* serve returns the scanner's error.
ServeTooLong ==
    /\ spc = "scan"
    /\ pos < Len(input)
    /\ input[pos + 1].kind = "oversized"
    /\ spc' = "failed"
    /\ UNCHANGED <<sbVars, input, pos, out, initialized, req, ctx, runVars>>

\* The scanner reports the end of the input: serve returns.
ServeEOF ==
    /\ spc = "scan"
    /\ pos = Len(input)
    /\ spc' = "done"
    /\ UNCHANGED <<sbVars, input, pos, out, initialized, req, ctx, runVars>>

\* ---------------------------------------------------- sandbox transitions

\* A caller runs ReadFile.
SandboxRead(stat) ==
    /\ sb.op = "read" /\ ~sb.done
    /\ sb' = ReadFile(sb.arg, stat)
    /\ UNCHANGED <<srvVars, runVars>>

\* A caller runs WriteFile.
SandboxWrite(outcome) ==
    /\ sb.op = "write" /\ ~sb.done
    /\ sb' = WriteFile(sb.arg, outcome)
    /\ UNCHANGED <<srvVars, runVars>>

\* A caller runs ListDirectory.
SandboxList(outcome) ==
    /\ sb.op = "list" /\ ~sb.done
    /\ sb' = ListDirectory(sb.arg, outcome)
    /\ UNCHANGED <<srvVars, runVars>>

\* A caller is about to run one primitive on one path.
InitSandbox ==
    /\ sb \in {SbCall(op, p) : op \in {"read", "write", "list"}, p \in Paths}
    /\ ServerOff
    /\ RunnerIdle

NextSandbox ==
    \/ \E s \in StatOutcomes : SandboxRead(s)
    \/ \E o \in WriteOutcomes : SandboxWrite(o)
    \/ \E o \in ReadDirOutcomes : SandboxList(o)

\* The sandbox driven by arbitrary callers.
SpecSandbox == InitSandbox /\ [][NextSandbox]_vars

\* ---------------------------------------------------------- specifications

\* Most lines on the server's input.
MaxLines == 2

\* Longest "agents" argument of invoke_parallel, in characters.
MaxAgentsLen == 3

\* Most tasks handed to InvokeSequential.
MaxSeqTasks == 2

\* A tools/call request's params.
Call(name, args) == CallToolParams(TRUE, name, args)

\* The requests a client sends, none of which runs agents in parallel.
ServeRequests ==
    {Request(<<"1">>, "initialize", NoParams),
     Request(<<>>, "initialized", NoParams),
     Request(<<"20">>, "initialized", NoParams),
     Request(<<"2">>, "tools/list", NoParams),
     Request(<<>>, "tools/list", NoParams),
     Request(<<"3">>, "resources/list", NoParams),
     Request(<<"4">>, "resources/read", NoParams),
     Request(<<"5">>, "prompts/list", NoParams),
     Request(<<"6">>, "prompts/get", NoParams),
     Request(<<"7">>, "shutdown", NoParams),
     Request(<<"21">>, "", NoParams),
     Request(<<"8">>, "tools/call", NoParams),
     Request(<<"9">>, "tools/call", Call("delete_file", NoArgs)),
     Request(<<"10">>, "tools/call", Call("list_agents", NoArgs)),
     Request(<<"11">>, "tools/call",
             Call("read_file", [NoArgs EXCEPT !.path = <<"a">>])),
     Request(<<"12">>, "tools/call",
             Call("read_file", [NoArgs EXCEPT !.path = <<".", ".", "/", "a">>])),
     Request(<<"13">>, "tools/call",
             Call("glob_files", [NoArgs EXCEPT !.pattern = <<"*">>])),
     Request(<<"14">>, "tools/call",
             Call("grep_files", [NoArgs EXCEPT !.pattern = <<"h">>])),
     Request(<<"15">>, "tools/call",
             Call("run_command", [NoArgs EXCEPT !.command = <<"ls">>])),
     Request(<<"16">>, "tools/call",
             Call("invoke_agent", [NoArgs EXCEPT !.agent = <<"x">>])),
     Request(<<"17">>, "tools/call",
             Call("invoke_parallel", [NoArgs EXCEPT !.input = <<"i">>])),
     Request(<<"18">>, "tools/call",
             Call("invoke_agent",
                  [NoArgs EXCEPT !.agent = <<"y">>, !.input = <<"i">>])),
     Request(<<"null">>, "tools/call",
             Call("invoke_agent",
                  [NoArgs EXCEPT !.agent = <<"z">>, !.input = <<"i">>]))}

ServeLines ==
    {EmptyLine, MalformedLine, OversizedLine} \cup {RequestLine(r) : r \in ServeRequests}

\* The non-empty sequences of at most n elements of S.
SeqsUpTo(S, n) == UNION {[1..k -> S] : k \in 1..n}

\* A server starts reading some input; the runner behind it is idle.
InitServe ==
    /\ sb = SbNone
    /\ input \in SeqsUpTo(ServeLines, MaxLines)
    /\ pos = 0 /\ out = <<>> /\ initialized = FALSE /\ spc = "scan" /\ req = <<>>
    /\ ctx = "live"
    /\ RunnerIdle

NextServe ==
    \/ \E env \in Envs : ServeLine(env)
    \/ \E w \in DOMAIN act : RunnerInvoke(w)
    \/ \E w \in DOMAIN act, resp \in LLMResponses : AgentComplete(w, resp)
    \/ \E w \in DOMAIN act : AgentLoopExit(w)
    \/ ServeReply
    \/ ServeTooLong
    \/ ServeEOF

\* The server on arbitrary input over a transport that takes every write.
SpecServe == InitServe /\ [][NextServe]_vars

\* The characters of an "agents" argument.
AgentsChars == {"x", "y", ",", " "}

\* The "agents" arguments of invoke_parallel.
AgentLists == StringsUpTo(AgentsChars, MaxAgentsLen) \ {<<>>}

\* A server whose input is one invoke_parallel call.
InitParallel ==
    /\ sb = SbNone
    /\ input \in {<<RequestLine(Request(<<"1">>, "tools/call",
                        Call("invoke_parallel",
                             [NoArgs EXCEPT !.agents = l, !.input = <<"i">>])))>> :
                  l \in AgentLists}
    /\ pos = 0 /\ out = <<>> /\ initialized = FALSE /\ spc = "scan" /\ req = <<>>
    /\ ctx = "live"
    /\ RunnerIdle

NextParallel ==
    \/ \E env \in Envs : ServeLine(env)
    \/ ParallelSpawn
    \/ \E w \in DOMAIN act : RunnerInvoke(w)
    \/ \E w \in DOMAIN act, resp \in LLMResponses : AgentComplete(w, resp)
    \/ \E w \in DOMAIN act : AgentLoopExit(w)
    \/ \E w \in DOMAIN act : WorkerStore(w)
    \/ \E w \in DOMAIN act : WorkerDone(w)
    \/ ParallelWait
    \/ ServeReply
    \/ ServeEOF

\* invoke_parallel through the server, the goroutines interleaved freely.
SpecParallel == InitParallel /\ [][NextParallel]_vars

\* The tasks a caller hands to InvokeSequential: "z" is not registered.
SeqTasks ==
    {AgentTask(<<"x">>, <<"i1">>), AgentTask(<<"y">>, <<"i2">>),
     AgentTask(<<"z">>, <<"i3">>)}

\* A caller has just entered InvokeSequential with a non-empty task list.
InitSequential ==
    /\ sb = SbNone
    /\ ServerOff
    /\ agents = NewRunner
    /\ rc \in {RunnerCall("sequential", tasks, "loop", 0) :
               tasks \in SeqsUpTo(SeqTasks, MaxSeqTasks)}
    /\ results = <<>> /\ errors = <<>> /\ wg = 0
    /\ contextBuilder = <<>> /\ act = <<>>
    /\ orch = NoOrchestration

NextSequential ==
    \/ SeqCall
    \/ \E w \in DOMAIN act : RunnerInvoke(w)
    \/ \E w \in DOMAIN act, resp \in LLMResponses : AgentComplete(w, resp)
    \/ \E w \in DOMAIN act : AgentLoopExit(w)
    \/ SeqCollect
    \/ SeqReturn

\* InvokeSequential called directly.
SpecSequential == InitSequential /\ [][NextSequential]_vars

\* The lines of a session that mixes a parallel fan-out with other traffic:
\* "z" is not registered.
FanoutLines ==
    {EmptyLine, MalformedLine, OversizedLine,
     RequestLine(Request(<<>>, "initialized", NoParams)),
     RequestLine(Request(<<"2">>, "tools/list", NoParams)),
     RequestLine(Request(<<"19">>, "tools/call",
                         Call("invoke_parallel",
                              [NoArgs EXCEPT !.agents = <<"x", ",", "z">>,
                                             !.input = <<"i">>])))}

\* A server starts reading such a session.
InitFanout ==
    /\ sb = SbNone
    /\ input \in SeqsUpTo(FanoutLines, MaxLines)
    /\ pos = 0 /\ out = <<>> /\ initialized = FALSE /\ spc = "scan" /\ req = <<>>
    /\ ctx = "live"
    /\ RunnerIdle

NextFanout ==
    \/ \E env \in Envs : ServeLine(env)
    \/ ParallelSpawn
    \/ \E w \in DOMAIN act : RunnerInvoke(w)
    \/ \E w \in DOMAIN act, resp \in LLMResponses : AgentComplete(w, resp)
    \/ \E w \in DOMAIN act : AgentLoopExit(w)
    \/ \E w \in DOMAIN act : WorkerStore(w)
    \/ \E w \in DOMAIN act : WorkerDone(w)
    \/ ParallelWait
    \/ ServeReply
    \/ ServeTooLong
    \/ ServeEOF

\* The server on sessions with fan-outs between other lines.
SpecFanout == InitFanout /\ [][NextFanout]_vars

\* The environment of a session in which the filesystem and the shell answer
\* every request alike.
SteadyEnvs == {DefaultEnv}

\* A session that sends a request, then "initialize", then the same request
\* again.
InitLifecycle ==
    /\ sb = SbNone
    /\ input \in {<<RequestLine(r),
                    RequestLine(Request(<<"1">>, "initialize", NoParams)),
                    RequestLine(r)>> : r \in ServeRequests}
    /\ pos = 0 /\ out = <<>> /\ initialized = FALSE /\ spc = "scan" /\ req = <<>>
    /\ ctx = "live"
    /\ RunnerIdle

NextLifecycle ==
    \/ \E env \in SteadyEnvs : ServeLine(env)
    \/ \E w \in DOMAIN act : RunnerInvoke(w)
    \/ \E w \in DOMAIN act, resp \in LLMResponses : AgentComplete(w, resp)
    \/ \E w \in DOMAIN act : AgentLoopExit(w)
    \/ ServeReply
    \/ ServeEOF

\* The server asked the same thing before and after "initialize".
SpecLifecycle == InitLifecycle /\ [][NextLifecycle]_vars

\* The agents a client names in invoke_agent: "z" is not registered.
AgentNames == {<<"x">>, <<"y">>, <<"z">>}

\* A server whose input is one call of an agent tool: invoke_agent on one
\* agent, or invoke_parallel on a list.
InitAgentTools ==
    /\ sb = SbNone
    /\ input \in
          {<<RequestLine(Request(<<"1">>, "tools/call",
                 Call("invoke_agent",
                      [NoArgs EXCEPT !.agent = a, !.input = <<"i">>])))>> :
           a \in AgentNames}
          \cup
          {<<RequestLine(Request(<<"1">>, "tools/call",
                 Call("invoke_parallel",
                      [NoArgs EXCEPT !.agents = l, !.input = <<"i">>])))>> :
           l \in AgentLists}
    /\ pos = 0 /\ out = <<>> /\ initialized = FALSE /\ spc = "scan" /\ req = <<>>
    /\ ctx = "live"
    /\ RunnerIdle

NextAgentTools ==
    \/ \E env \in Envs : ServeLine(env)
    \/ ParallelSpawn
    \/ \E w \in DOMAIN act : RunnerInvoke(w)
    \/ \E w \in DOMAIN act, resp \in LLMResponses : AgentComplete(w, resp)
    \/ \E w \in DOMAIN act : AgentLoopExit(w)
    \/ \E w \in DOMAIN act : WorkerStore(w)
    \/ \E w \in DOMAIN act : WorkerDone(w)
    \/ ParallelWait
    \/ ServeReply
    \/ ServeEOF

\* The agent tools called through the server.
SpecAgentTools == InitAgentTools /\ [][NextAgentTools]_vars

\* Whether serve has a response to write for the line it is about to handle.
HasResponse(line, env) ==
    \/ line.kind = "malformed"
    \/ /\ line.kind = "request"
       /\ ~CallsAgents(line.req)
       /\ handleRequest(line.req, agents, env) # <<>>

\* serve handles the next line and the output stream refuses the response.
ServeLineWriteFails(env) ==
    /\ spc = "scan"
    /\ pos < Len(input)
    /\ HasResponse(input[pos + 1], env)
    /\ ServeHandle(env, FALSE)

\* The runner returned and the output stream refuses the response.
ServeReplyWriteFails ==
    /\ spc = "call"
    /\ ~(rc.kind = "parallel" /\ \E i \in DOMAIN results : results[i] = <<>>)
    /\ ServeReturn(FALSE)

\* The input stream fails: Scan reports false and serve returns the scanner's
\* error.
ServeReadFails ==
    /\ spc = "scan"
    /\ spc' = "failed"
    /\ UNCHANGED <<sbVars, input, pos, out, initialized, req, ctx, runVars>>

\* The lines of a session in which something fails at every level: a line
\* that is not JSON, one too long, an unknown method, a tool call without
\* params, a read outside the workspace, an unregistered agent ("z"), alone
\* and in a batch.
TransportLines ==
    {EmptyLine, MalformedLine, OversizedLine,
     RequestLine(Request(<<"2">>, "tools/list", NoParams)),
     RequestLine(Request(<<"7">>, "shutdown", NoParams)),
     RequestLine(Request(<<"8">>, "tools/call", NoParams)),
     RequestLine(Request(<<"12">>, "tools/call",
                         Call("read_file", [NoArgs EXCEPT !.path = <<".", ".", "/", "a">>]))),
     RequestLine(Request(<<"18">>, "tools/call",
                         Call("invoke_agent",
                              [NoArgs EXCEPT !.agent = <<"y">>, !.input = <<"i">>]))),
     RequestLine(Request(<<"null">>, "tools/call",
                         Call("invoke_agent",
                              [NoArgs EXCEPT !.agent = <<"z">>, !.input = <<"i">>]))),
     RequestLine(Request(<<"19">>, "tools/call",
                         Call("invoke_parallel",
                              [NoArgs EXCEPT !.agents = <<"x", ",", "z">>,
                                             !.input = <<"i">>])))}

\* A server starts reading such a session.
InitTransport ==
    /\ sb = SbNone
    /\ input \in SeqsUpTo(TransportLines, MaxLines)
    /\ pos = 0 /\ out = <<>> /\ initialized = FALSE /\ spc = "scan" /\ req = <<>>
    /\ ctx = "live"
    /\ RunnerIdle

NextTransport ==
    \/ \E env \in Envs : ServeLine(env)
    \/ \E env \in Envs : ServeLineWriteFails(env)
    \/ ParallelSpawn
    \/ \E w \in DOMAIN act : RunnerInvoke(w)
    \/ \E w \in DOMAIN act, resp \in LLMResponses : AgentComplete(w, resp)
    \/ \E w \in DOMAIN act : AgentLoopExit(w)
    \/ \E w \in DOMAIN act : WorkerStore(w)
    \/ \E w \in DOMAIN act : WorkerDone(w)
    \/ ParallelWait
    \/ ServeReply
    \/ ServeReplyWriteFails
    \/ ServeTooLong
    \/ ServeReadFails
    \/ ServeEOF

\* The server over streams that may fail at any read and at any write.
SpecTransport == InitTransport /\ [][NextTransport]_vars

\* The caller of serve cancels the context while serve is in its loop.
Cancel ==
    /\ spc \in {"scan", "call"}
    /\ ctx = "live"
    /\ ctx' = "cancelled"
    /\ UNCHANGED <<sbVars, input, pos, out, initialized, spc, req, runVars>>

\* The scanner delivers the next line and the context is done: serve returns
\* the context's error without looking at the line.
ServeCancelled ==
    /\ spc = "scan"
    /\ pos < Len(input)
    /\ input[pos + 1].kind # "oversized"
    /\ ctx = "cancelled"
    /\ pos' = pos + 1
    /\ spc' = "cancelled"
    /\ UNCHANGED <<sbVars, input, out, initialized, req, ctx, runVars>>

\* A server starts reading a session that its caller may cancel.
InitCancel ==
    /\ sb = SbNone
    /\ input \in SeqsUpTo(TransportLines, MaxLines)
    /\ pos = 0 /\ out = <<>> /\ initialized = FALSE /\ spc = "scan" /\ req = <<>>
    /\ ctx = "live"
    /\ RunnerIdle

NextCancel ==
    \/ Cancel
    \/ \E env \in Envs : ServeLine(env)
    \/ ServeCancelled
    \/ ParallelSpawn
    \/ \E w \in DOMAIN act : RunnerInvoke(w)
    \/ \E w \in DOMAIN act, resp \in LLMResponses : AgentComplete(w, resp)
    \/ \E w \in DOMAIN act : AgentLoopExit(w)
    \/ \E w \in DOMAIN act : WorkerStore(w)
    \/ \E w \in DOMAIN act : WorkerDone(w)
    \/ ParallelWait
    \/ ServeReply
    \/ ServeTooLong
    \/ ServeEOF

\* The server under a context that is cancelled at any moment.
SpecCancel == InitCancel /\ [][NextCancel]_vars

\* ------------------------------------------- glob, grep and shell, directly

\* The outcome of GlobFiles, GrepFiles or RunShell called directly: what the
\* OS answered (env), what the primitive returned (ret) and the locations
\* handed to or opened through the OS (touched).
SbRan(op, arg, env, ret, touched) ==
    [op |-> op, arg |-> arg, done |-> TRUE, env |-> env, ret |-> ret,
     touched |-> touched]

\* The location the OS resolves a path to for a process whose working
\* directory is the workspace (cmd.Dir).
OsPath(p) == Abs(IF ~IsAbs(p) THEN Join(Workspace, p) ELSE p)

\* The shell command that prints the file at path p.
CatCommand(p) == <<"cat ">> \o p

\* What a process running "cat p" in the workspace opens, if it started.
ProcOpens(p, proc) == IF proc.started THEN {OsPath(p)} ELSE {}

\* The patterns a caller hands to GrepFiles.
GrepPatterns == {<<"h">>, <<"[">>}

\* A caller runs GlobFiles.
SandboxGlob(glob) ==
    /\ sb.op = "glob" /\ ~sb.done
    /\ sb' = SbRan("glob", sb.arg, glob, GlobFiles(sb.arg, glob),
                   GlobFiles(sb.arg, glob).touched)
    /\ UNCHANGED <<srvVars, runVars>>

\* A caller runs GrepFiles.
SandboxGrep(grep) ==
    /\ sb.op = "grep" /\ ~sb.done
    /\ sb' = SbRan("grep", sb.arg, grep, GrepFiles(sb.arg, <<>>, grep),
                   GrepFiles(sb.arg, <<>>, grep).touched)
    /\ UNCHANGED <<srvVars, runVars>>

\* A caller runs RunShell on the command "cat p".
SandboxShell(proc) ==
    /\ sb.op = "shell" /\ ~sb.done
    /\ sb' = SbRan("shell", sb.arg, proc, RunShell(CatCommand(sb.arg), proc),
                   ProcOpens(sb.arg, proc))
    /\ UNCHANGED <<srvVars, runVars>>

\* A caller is about to run one of the six primitives.
InitPrimitives ==
    /\ sb \in {SbCall(op, p) : op \in {"read", "write", "list", "glob", "shell"},
                               p \in Paths}
              \cup {SbCall("grep", p) : p \in GrepPatterns}
    /\ ServerOff
    /\ RunnerIdle

NextPrimitives ==
    \/ \E s \in StatOutcomes : SandboxRead(s)
    \/ \E o \in WriteOutcomes : SandboxWrite(o)
    \/ \E o \in ReadDirOutcomes : SandboxList(o)
    \/ \E g \in GlobOutcomes : SandboxGlob(g)
    \/ \E g \in GrepOutcomes : SandboxGrep(g)
    \/ \E pr \in ProcOutcomes : SandboxShell(pr)

\* Every primitive of the sandbox driven by arbitrary callers.
SpecPrimitives == InitPrimitives /\ [][NextPrimitives]_vars

\* ---------------------------------------------------- ExecuteOrchestrated

\* The AgentTasks ExecuteOrchestrated builds: one per name, each with the
\* task's input.
OrchestratedTasks(task) ==
    [i \in DOMAIN task.Agents |-> AgentTask(task.Agents[i], task.Input)]

\* An OrchestratedResult that keeps only the results of agents that succeeded.
OrchestratedResult_Successes(name, mode, rs) ==
    [Task |-> name, Mode |-> mode, Results |-> SelectSeq(rs, LAMBDA r : r[1].Success)]

\* OrchestratedResult
OrchestratedResult(name, mode, rs) == [Task |-> name, Mode |-> mode, Results |-> rs]

RECURSIVE AllFrom(_, _)
\* AllSuccessful's loop from index i on: false at the first result that did
\* not succeed.
AllFrom(rs, i) ==
    IF i > Len(rs) THEN TRUE
    ELSE IF ~rs[i][1].Success THEN FALSE
    ELSE AllFrom(rs, i + 1)

\* OrchestratedResult.AllSuccessful
AllSuccessful(r) == AllFrom(r.Results, 1)

\* ExecuteOrchestrated builds the tasks and switches on the mode: it enters
\* InvokeParallel or InvokeSequential (either returns at once for an empty
\* task list), or returns the unknown-mode error.
OrchestratedCall ==
    /\ orch.pc = "entry"
    /\ LET tasks == OrchestratedTasks(orch.task) IN
       IF orch.task.Mode = "parallel"
           THEN /\ rc' = RunnerCall("parallel", tasks,
                                    IF tasks = <<>> THEN "returned" ELSE "spawn", 0)
                /\ results' = EmptySlots(tasks)
                /\ errors' = EmptySlots(tasks)
                /\ wg' = 0
                /\ act' = [i \in DOMAIN tasks |->
                              Activation("idle", tasks[i].Agent, tasks[i].Input)]
                /\ orch' = [orch EXCEPT !.pc = "running"]
                /\ UNCHANGED contextBuilder
       ELSE IF orch.task.Mode = "sequential"
           THEN /\ rc' = RunnerCall("sequential", tasks,
                                    IF tasks = <<>> THEN "returned" ELSE "loop", 0)
                /\ results' = <<>>
                /\ contextBuilder' = <<>>
                /\ orch' = [orch EXCEPT !.pc = "running"]
                /\ UNCHANGED <<errors, wg, act>>
       ELSE /\ orch' = [orch EXCEPT
                    !.pc = "returned",
                    !.ret = <<InvokeReturn(<<>>, <<"unknown mode: ", orch.task.Mode>>)>>]
            /\ UNCHANGED <<rc, results, errors, wg, contextBuilder, act>>
    /\ UNCHANGED <<sbVars, srvVars, agents>>

\* InvokeParallel or InvokeSequential returned (neither ever returns an
\* error): ExecuteOrchestrated wraps the results.
OrchestratedReturn ==
    /\ orch.pc = "running"
    /\ rc.pc = "returned"
    /\ orch' = [orch EXCEPT
            !.pc = "returned",
            !.ret = <<InvokeReturn(
                        <<OrchestratedResult(orch.task.Name, orch.task.Mode, results)>>,
                        <<>>)>>]
    /\ UNCHANGED <<sbVars, srvVars, agents, rc, results, errors, wg, contextBuilder, act>>

\* The modes a caller asks for: the two known ones, none, and an unknown one.
Modes == {"parallel", "sequential", "", "race"}

\* The agent lists a caller names, the empty one included: "x" is
\* registered, "z" is not.
OrchestratedAgents == {<<>>} \cup SeqsUpTo({<<"x">>, <<"z">>}, MaxSeqTasks)

\* A caller has just entered ExecuteOrchestrated.
InitOrchestrated ==
    /\ sb = SbNone
    /\ ServerOff
    /\ agents = NewRunner
    /\ rc = NoCallInProgress
    /\ results = <<>> /\ errors = <<>> /\ wg = 0
    /\ contextBuilder = <<>> /\ act = <<>>
    /\ orch \in {Orchestration(OrchestratedTask(<<"t">>, as, <<"i">>, mode), "entry", <<>>) :
                 as \in OrchestratedAgents, mode \in Modes}

NextOrchestrated ==
    \/ OrchestratedCall
    \/ ParallelSpawn
    \/ \E w \in DOMAIN act : RunnerInvoke(w)
    \/ \E w \in DOMAIN act, resp \in LLMResponses : AgentComplete(w, resp)
    \/ \E w \in DOMAIN act : AgentLoopExit(w)
    \/ \E w \in DOMAIN act : WorkerStore(w)
    \/ \E w \in DOMAIN act : WorkerDone(w)
    \/ ParallelWait
    \/ SeqCall
    \/ SeqCollect
    \/ SeqReturn
    \/ OrchestratedReturn

\* ExecuteOrchestrated called directly.
SpecOrchestrated == InitOrchestrated /\ [][NextOrchestrated]_vars

\* ------------------------------------------------ one agent loop, directly

\* Tool calls the model may ask for: a tool no agent is configured with
\* ("write"), a read the sandbox refuses, and a read that succeeds.
LoopToolCalls ==
    <<[ID |-> "c3", Name |-> "write",
       Arguments |-> [path |-> <<"b">>, content |-> <<"c">>]],
      [ID |-> "c4", Name |-> "read", Arguments |-> [path |-> <<".", ".", "/", "a">>]],
      [ID |-> "c5", Name |-> "read", Arguments |-> [path |-> <<"a">>]]>>

\* What LLMClient.Complete may answer to a loop observed on its own: as
\* LLMResponses, and a second response that asks for tool calls.
LoopResponses ==
    LLMResponses
    \cup {[err |-> <<>>, Content |-> <<"u">>, ToolCalls |-> LoopToolCalls, Done |-> FALSE]}

\* A caller has just entered Runner.Invoke.
InitLoop ==
    /\ sb = SbNone
    /\ ServerOff
    /\ agents = NewRunner
    /\ rc \in {RunnerCall("invoke", <<AgentTask(a, <<"i">>)>>, "running", 0) :
               a \in AgentNames}
    /\ results = <<>> /\ errors = <<>> /\ wg = 0 /\ contextBuilder = <<>>
    /\ act = <<Activation("start", rc.tasks[1].Agent, rc.tasks[1].Input)>>
    /\ orch = NoOrchestration

NextLoop ==
    \/ \E w \in DOMAIN act : RunnerInvoke(w)
    \/ \E w \in DOMAIN act, resp \in LoopResponses : AgentComplete(w, resp)
    \/ \E w \in DOMAIN act : AgentLoopExit(w)

\* Runner.Invoke called directly, the model free to vary its tool calls from
\* one iteration to the next.
SpecLoop == InitLoop /\ [][NextLoop]_vars

\* -------------------------------------- concurrent loops, told apart

\* The tool calls the model asks of invocation w: as ToolCallList, with ids
\* that name the invocation.
WorkerToolCalls(w) ==
    [j \in DOMAIN ToolCallList |->
        [ToolCallList[j] EXCEPT !.ID = "w" \o ToString(w) \o ToolCallList[j].ID]]

\* What LLMClient.Complete may answer to invocation w: as LLMResponses, its
\* texts and tool-call ids naming the invocation that asked.
WorkerResponses(w) ==
    {[r EXCEPT !.Content = IF r.Content = <<>> THEN <<>>
                           ELSE r.Content \o <<ToString(w)>>,
               !.ToolCalls = IF r.ToolCalls = <<>> THEN <<>> ELSE WorkerToolCalls(w)] :
     r \in LLMResponses}

\* A server whose input is one invoke_parallel call.
InitIsolation ==
    /\ sb = SbNone
    /\ input \in {<<RequestLine(Request(<<"1">>, "tools/call",
                        Call("invoke_parallel",
                             [NoArgs EXCEPT !.agents = l, !.input = <<"i">>])))>> :
                  l \in AgentLists}
    /\ pos = 0 /\ out = <<>> /\ initialized = FALSE /\ spc = "scan" /\ req = <<>>
    /\ ctx = "live"
    /\ RunnerIdle

NextIsolation ==
    \/ \E env \in Envs : ServeLine(env)
    \/ ParallelSpawn
    \/ \E w \in DOMAIN act : RunnerInvoke(w)
    \/ \E w \in DOMAIN act : \E resp \in WorkerResponses(w) : AgentComplete(w, resp)
    \/ \E w \in DOMAIN act : AgentLoopExit(w)
    \/ \E w \in DOMAIN act : WorkerStore(w)
    \/ \E w \in DOMAIN act : WorkerDone(w)
    \/ ParallelWait
    \/ ServeReply
    \/ ServeEOF

\* invoke_parallel through the server, the goroutines interleaved freely and
\* every completion marked with the invocation it answers.
SpecIsolation == InitIsolation /\ [][NextIsolation]_vars

\* ------------------------------------------- every operation on the runner

\* The lines of a session that uses the registry: the agents are listed,
\* invoked, alone and in a batch, and looked up by a name that is not
\* registered ("z").
RegistryLines ==
    {MalformedLine,
     RequestLine(Request(<<"1">>, "initialize", NoParams)),
     RequestLine(Request(<<"2">>, "tools/list", NoParams)),
     RequestLine(Request(<<"10">>, "tools/call", Call("list_agents", NoArgs))),
     RequestLine(Request(<<"11">>, "tools/call",
                         Call("read_file", [NoArgs EXCEPT !.path = <<"a">>]))),
     RequestLine(Request(<<"18">>, "tools/call",
                         Call("invoke_agent",
                              [NoArgs EXCEPT !.agent = <<"y">>, !.input = <<"i">>]))),
     RequestLine(Request(<<"null">>, "tools/call",
                         Call("invoke_agent",
                              [NoArgs EXCEPT !.agent = <<"z">>, !.input = <<"i">>]))),
     RequestLine(Request(<<"19">>, "tools/call",
                         Call("invoke_parallel",
                              [NoArgs EXCEPT !.agents = <<"x", ",", "z">>,
                                             !.input = <<"i">>])))}

\* A server starts reading such a session.
InitRegistryServer ==
    /\ sb = SbNone
    /\ input \in SeqsUpTo(RegistryLines, MaxLines)
    /\ pos = 0 /\ out = <<>> /\ initialized = FALSE /\ spc = "scan" /\ req = <<>>
    /\ ctx = "live"
    /\ RunnerIdle

\* The runner right after NewRunner, entered through the server or directly
\* through Invoke, InvokeSequential or ExecuteOrchestrated.
InitRegistry ==
    \/ InitRegistryServer
    \/ InitLoop
    \/ InitSequential
    \/ InitOrchestrated

NextRegistry ==
    \/ \E env \in Envs : ServeLine(env)
    \/ OrchestratedCall
    \/ ParallelSpawn
    \/ \E w \in DOMAIN act : RunnerInvoke(w)
    \/ \E w \in DOMAIN act, resp \in LLMResponses : AgentComplete(w, resp)
    \/ \E w \in DOMAIN act : AgentLoopExit(w)
    \/ \E w \in DOMAIN act : WorkerStore(w)
    \/ \E w \in DOMAIN act : WorkerDone(w)
    \/ ParallelWait
    \/ SeqCall
    \/ SeqCollect
    \/ SeqReturn
    \/ OrchestratedReturn
    \/ ServeReply
    \/ ServeEOF

\* Every operation of the runner, through the server and directly.
SpecRegistry == InitRegistry /\ [][NextRegistry]_vars

\* ------------------------------------------------- path containment (C1, C2)

WsElems == Elems(Workspace)

RECURSIVE WalkFrom(_, _)
\* Where walking the elements of a path leads from directory dir, by the
\* filesystem's own rules: "" and "." stay, ".." goes to the parent (the
\* root is its own parent), a name descends.
WalkFrom(dir, elems) ==
    IF elems = <<>> THEN dir
    ELSE LET e == Head(elems) IN
         WalkFrom(IF e = <<>> \/ e = Dot THEN dir
                  ELSE IF e = DotDot
                      THEN (IF dir = <<>> THEN dir ELSE SubSeq(dir, 1, Len(dir) - 1))
                  ELSE Append(dir, e),
                  Tail(elems))

\* The directory entry an input path names: a relative path is walked from
\* the workspace root, an absolute one from "/".
Target(p) == WalkFrom(IF IsAbs(p) THEN <<>> ELSE WsElems, Split(p, "/"))

IsElemPrefix(a, b) == Len(a) <= Len(b) /\ SubSeq(b, 1, Len(a)) = a

\* The input path names the root or something below it.
WithinRoot(p) == IsElemPrefix(WsElems, Target(p))

\* The input path names something strictly below the root.
StrictlyInside(p) == WithinRoot(p) /\ Target(p) # WsElems

\* An absolute path string that is the root or lies below it.
UnderRoot(abs) == abs = Workspace \/ HasPrefix(abs, Workspace \o <<"/">>)

HasDotDotSegment(p) == \E i \in DOMAIN Split(p, "/") : Split(p, "/")[i] = DotDot

C2_InsideAccepted ==
    sb.done =>
        (StrictlyInside(sb.arg) => sb.err # "path outside workspace" /\ UnderRoot(sb.path))

\* -------------------------------------------- InvokeParallel (C3, C4, C5)

\* InvokeParallel has returned its results list.
ParallelReturned == rc.kind = "parallel" /\ rc.pc = "returned"

\* C3: while InvokeParallel runs, for every interleaving of its goroutines,
\* the results list has exactly one entry per task and every filled entry i
\* carries the agent name of task i; when it returns every entry is filled.
C3_OrderPreserved ==
    rc.kind = "parallel" =>
        /\ Len(results) = Len(rc.tasks)
        /\ \A i \in DOMAIN results :
               results[i] # <<>> => results[i][1].Agent = rc.tasks[i].Agent
        /\ (rc.pc = "returned" =>
               \A i \in DOMAIN rc.tasks :
                   results[i] # <<>> /\ results[i][1].Agent = rc.tasks[i].Agent)

\* C3 witness: in the batch "x,y" the second task completed first, and its
\* result is in the second slot while the first is still empty.
C3_Witness ==
    /\ rc.kind = "parallel"
    /\ Len(rc.tasks) = 2
    /\ rc.tasks[1].Agent = <<"x">> /\ rc.tasks[2].Agent = <<"y">>
    /\ results[1] = <<>>
    /\ results[2] # <<>> /\ results[2][1].Agent = <<"y">>

\* C4: when InvokeParallel returns, the slot of every task whose Runner.Invoke
\* returned an error (unknown agent, LLM error) holds a result for that task
\* with success false and that error as its non-empty error text, and the
\* slot of every other task holds exactly the result its own Runner.Invoke
\* returned.
C4_FailureIsolated ==
    ParallelReturned =>
        \A i \in DOMAIN rc.tasks :
            /\ results[i] # <<>>
            /\ act[i].ret # <<>>
            /\ IF act[i].ret[1].err # <<>>
                   THEN /\ ~results[i][1].Success
                        /\ results[i][1].Error # <<>>
                        /\ results[i][1].Error = act[i].ret[1].err
                        /\ results[i][1].Agent = rc.tasks[i].Agent
                        /\ results[i][1].Input = rc.tasks[i].Input
                        /\ errors[i] = act[i].ret[1].err
               ELSE /\ results[i] = act[i].ret[1].result
                    /\ errors[i] = <<>>

\* C4 witness: a batch of two returned in which the first task succeeded
\* and the second named no registered agent.
C4_Witness ==
    /\ ParallelReturned
    /\ Len(rc.tasks) = 2
    /\ results[1] # <<>> /\ results[1][1].Success
    /\ results[2] # <<>> /\ ~results[2][1].Success
    /\ results[2][1].Error = <<"agent not found: ">> \o rc.tasks[2].Agent

RECURSIVE CountPiece(_, _)
\* How often a piece occurs in a text.
CountPiece(text, piece) ==
    IF text = <<>> THEN 0
    ELSE (IF Head(text) = piece THEN 1 ELSE 0) + CountPiece(Tail(text), piece)

\* The number of names in the "agents" argument of the one request.
AskedAgents == Len(Split(input[1].req.Params.Arguments.agents, ","))

\* C5: when InvokeParallel returns, every slot is filled and every goroutine
\* it launched has finished, so none can write a slot afterwards; the server
\* never formats a nil slot, and it answers the invoke_parallel request with
\* exactly one response, written after the batch returned, whose text has
\* one section per task.
C5_Barrier ==
    /\ (ParallelReturned =>
            \A i \in DOMAIN rc.tasks : results[i] # <<>> /\ act[i].pc = "done")
    /\ spc # "crashed"
    /\ (spc = "call" => out = <<>>)
    /\ (spc \in {"scan", "done"} /\ pos = 1 =>
            /\ Len(out) = 1
            /\ out[1].hasResult
            /\ out[1].result[1].kind = "tools/call"
            /\ CountPiece(out[1].result[1].call.Text, "## ") = AskedAgents)

\* C5 witness: the server finished after answering a batch of two tasks
\* with one response.
C5_Witness ==
    /\ spc = "done"
    /\ AskedAgents = 2
    /\ Len(out) = 1
    /\ CountPiece(out[1].result[1].call.Text, "## ") = 2

\* ------------------------------------------------- iteration ceiling (C6)

\* C6: no activation of an agent ever requests more than maxIterations (10)
\* completions; and an agent whose every completion answered with tool calls
\* and no done flag returns, after exactly maxIterations completions, a
\* result (not an error) with success false and a non-empty error text.
C6_IterationCeiling ==
    \A w \in DOMAIN act :
        /\ act[w].ncalls <= maxIterations
        /\ (act[w].pc = "ret" /\ act[w].stub /\ act[w].agent \in DOMAIN agents =>
                /\ act[w].ncalls = maxIterations
                /\ act[w].ret[1].err = <<>>
                /\ act[w].ret[1].result # <<>>
                /\ ~act[w].ret[1].result[1].Success
                /\ act[w].ret[1].result[1].Error # <<>>)

\* C6 witness: an agent returned the ceiling result after ten completions
\* that all asked for tools.
C6_Witness ==
    \E w \in DOMAIN act :
        /\ act[w].pc = "ret" /\ act[w].stub
        /\ act[w].ncalls = 10
        /\ act[w].ret[1].result # <<>>
        /\ ~act[w].ret[1].result[1].Success

\* ------------------------------------------------ InvokeSequential (C7, C8)

RECURSIVE Accumulated(_, _)
\* The context block by its description: for every collected result that
\* succeeded, in task order, "\n[agent]: output\n"; nothing for a failed one.
Accumulated(rs, tasks) ==
    IF rs = <<>> THEN <<>>
    ELSE (IF Head(rs)[1].Success
              THEN <<"\n[">> \o Head(tasks).Agent \o <<"]: ">> \o Head(rs)[1].Output
                   \o <<"\n">>
          ELSE <<>>)
         \o Accumulated(Tail(rs), Tail(tasks))

\* The input with the context block in front.
WithContext(acc, in) ==
    <<"Previous context:\n">> \o acc \o <<"\n\nCurrent task:\n">> \o in

\* InvokeSequential is inside Runner.Invoke for the task at index rc.i.
SeqRunning == rc.kind = "sequential" /\ rc.pc = "running"

SeqRecorded ==
    rc.kind = "sequential" =>
        /\ Len(results) = rc.i
        /\ \A j \in DOMAIN results : results[j][1].Agent = rc.tasks[j].Agent
        /\ (rc.pc = "returned" => Len(results) = Len(rc.tasks))

\* What C8 asks of the step that collects a task's result: a task that
\* failed (Runner.Invoke returned an error, or a result without success) is
\* recorded as a result with success false at the task's position, the
\* context block stays exactly as it was, and the loop moves to the next task.
SeqFailureStep ==
    (SeqRunning /\ act[1].pc = "ret" /\ rc'.pc = "loop"
     /\ (act[1].ret[1].err # <<>> \/ ~act[1].ret[1].result[1].Success)) =>
        /\ Len(results') = rc.i + 1
        /\ ~results'[rc.i + 1][1].Success
        /\ SubSeq(results', 1, rc.i) = results
        /\ contextBuilder' = contextBuilder
        /\ rc'.i = rc.i + 1

\* C8: in InvokeSequential a failed task (unknown agent, LLM error,
\* iteration ceiling) is recorded as a failed result at its position, the
\* loop goes on to the next task, the call returns one result per task in
\* task order, and the context block is the same after the failed step as
\* before it.
C8_FailureDoesNotHalt == []SeqRecorded /\ [][SeqFailureStep]_vars

\* C8 witness: InvokeSequential returned two results, the first failed, the
\* second, run after it, succeeded.
C8_Witness ==
    /\ rc.kind = "sequential" /\ rc.pc = "returned"
    /\ Len(results) = 2
    /\ ~results[1][1].Success
    /\ results[2][1].Success

\* -------------------------------------------------- parse errors (C9, C10)

\* What a marshalled response is: a parse error, or a reply to a request.
OutKind(m) ==
    IF m.hasError /\ m.error[1].Code = -32700 THEN "parse" ELSE "reply"

RECURSIVE ExpectedKinds(_)
\* The responses a run of lines calls for: none for an empty line or an
\* "initialized" notification, a parse error for an unparseable line, a
\* reply for any other request.
ExpectedKinds(lines) ==
    IF lines = <<>> THEN <<>>
    ELSE (IF Head(lines).kind = "empty" THEN <<>>
          ELSE IF Head(lines).kind = "malformed" THEN <<"parse">>
          ELSE IF Head(lines).req.Method = "initialized" THEN <<>>
          ELSE <<"reply">>)
         \o ExpectedKinds(Tail(lines))

\* The lines serve has dealt with: all it has read but one being handled.
Handled == SubSeq(input, 1, IF spc = "call" THEN pos - 1 ELSE pos)

\* The input of the scenario: an unparseable line, then tools/list.
BadThenList == <<MalformedLine, RequestLine(Request(<<"2">>, "tools/list", NoParams))>>

\* C9 (as amended): on any input, what serve has written is, line for line
\* in input order, one parse error (code -32700) per line read that is not
\* empty and does not parse, and one reply per request that calls for one; an
\* empty line gets no response; serve ends only at the end of the input or at
\* a line longer than the scanner's buffer, never at a line it could read;
\* and an unparseable line followed by a tools/list request yields exactly
\* two responses, the parse error and then the tools/list result.
C9_ParseErrorContinues ==
    /\ [k \in DOMAIN out |-> OutKind(out[k])] = ExpectedKinds(Handled)
    /\ (spc = "done" => pos = Len(input))
    /\ (spc = "failed" => pos < Len(input) /\ input[pos + 1].kind = "oversized")
    /\ spc # "crashed"
    /\ (input = BadThenList /\ spc = "done" =>
            /\ Len(out) = 2
            /\ out[1].hasError /\ out[1].error[1].Code = -32700 /\ ~out[1].hasResult
            /\ out[2].hasResult /\ ~out[2].hasError
            /\ out[2].result[1].kind = "tools/list"
            /\ out[2].id = <<"2">>)

\* C9 witness: serve ended after an unparseable line and a tools/list
\* request, having written two responses.
C9_Witness ==
    /\ input = BadThenList
    /\ spc = "done"
    /\ Len(out) = 2
    /\ OutKind(out[1]) = "parse"

\* A line that is not valid JSON.
NotJSON(line) == line.kind \in {"empty", "malformed", "oversized"}

\* C9 (as stated): on any input, once serve has ended, every line that is not
\* valid JSON has produced exactly one parse error response and none has
\* ended the session before the end of the input.
C9_Original ==
    spc \in {"done", "failed"} =>
        /\ pos = Len(input)
        /\ Cardinality({k \in DOMAIN out : OutKind(out[k]) = "parse"})
               = Cardinality({k \in DOMAIN input : NotJSON(input[k])})

\* C10: every parse error response written carries an "id" member, and its
\* value is null.
C10_ParseErrorNullId ==
    \A k \in DOMAIN out :
        OutKind(out[k]) = "parse" => out[k].hasID /\ out[k].id = <<"null">>

\* ------------------------------------------------------ id correlation (C11)

RECURSIVE Answered(_)
\* The lines that call for a response, in input order: every line but the
\* empty ones and the "initialized" notifications.
Answered(lines) ==
    IF lines = <<>> THEN <<>>
    ELSE (IF Head(lines).kind = "empty" THEN <<>>
          ELSE IF Head(lines).kind = "request"
                  /\ Head(lines).req.Method = "initialized" THEN <<>>
          ELSE <<Head(lines)>>)
         \o Answered(Tail(lines))

\* C11: every response to a parsed request (a result or an error, for every
\* method of the dispatch table, every tool and unknown methods) carries the
\* id of that request, byte for byte (and no id member when the request had
\* none), and exactly one of "result" and "error".
C11_IdCorrelated ==
    /\ Len(out) = Len(Answered(Handled))
    /\ \A k \in DOMAIN out :
           Answered(Handled)[k].kind = "request" =>
               /\ out[k].hasID = (Answered(Handled)[k].req.ID # <<>>)
               /\ out[k].id = Answered(Handled)[k].req.ID
               /\ out[k].hasResult # out[k].hasError

\* C11 witness: resources/read with id 4 was answered with an error carrying
\* id 4, then read_file with id 11 with a result carrying id 11.
C11_Witness ==
    /\ Len(out) = 2
    /\ input[1].req.Method = "resources/read" /\ input[2].req.Method = "tools/call"
    /\ out[1].hasError /\ ~out[1].hasResult /\ out[1].id = <<"4">>
    /\ out[2].hasResult /\ ~out[2].hasError /\ out[2].id = <<"11">>

\* ---------------------------------------------- sequential processing (C12)

\* What C12 asks of every state: the responses written are, in input order,
\* exactly one per line dealt with that calls for one (a parse error for an
\* unparseable line, the reply with the request's id otherwise), the line
\* being handled has no response yet, and serve ends only at the end of the
\* input or at a line longer than the scanner's buffer.
InOrderOneEach ==
    /\ Len(out) = Len(Answered(Handled))
    /\ \A k \in DOMAIN out :
           IF Answered(Handled)[k].kind = "malformed"
               THEN OutKind(out[k]) = "parse"
           ELSE OutKind(out[k]) = "reply" /\ out[k].id = Answered(Handled)[k].req.ID
    /\ (spc = "done" => pos = Len(input))
    /\ (spc = "failed" => pos < Len(input) /\ input[pos + 1].kind = "oversized")
    /\ spc # "crashed"

\* What C12 asks of every step that reads a line: the line before it is
\* fully handled (no runner call in progress, no goroutine of a fan-out
\* left, its response written), and the read itself writes at most the
\* response of the line read.
ReadsAfterReply ==
    pos' # pos =>
        /\ spc = "scan"
        /\ rc = NoCallInProgress /\ act = <<>> /\ wg = 0
        /\ Len(out) = Len(Answered(SubSeq(input, 1, pos)))
        /\ pos' = pos + 1

\* C12 (as amended): for any sequence of input lines that fit the scanner's
\* buffer, the server finishes handling line k, its parallel fan-out
\* included, and writes its response before it reads line k+1, so the
\* responses are, in input order, exactly one per non-empty line that is not
\* an "initialized" notification, never reordered, duplicated or interleaved;
\* a line longer than the buffer ends the session unanswered.
C12_StrictlySequential == []InOrderOneEach /\ [][ReadsAfterReply]_vars

\* C12 witness: serve ended after a fan-out over two agents and a tools/list
\* request, having answered the fan-out first and tools/list second.
C12_Witness ==
    /\ spc = "done"
    /\ Len(input) = 2 /\ Len(out) = 2
    /\ input[1].req.Params.Name = "invoke_parallel"
    /\ out[1].id = <<"19">> /\ out[1].hasResult
    /\ out[1].result[1].kind = "tools/call"
    /\ out[2].id = <<"2">> /\ out[2].result[1].kind = "tools/list"

\* C12 (as stated): for any sequence of input lines, once serve has ended it
\* has read them all and written exactly one response per non-empty line
\* that is not an "initialized" notification.
C12_Original ==
    spc \in {"done", "failed"} =>
        /\ pos = Len(input)
        /\ Len(out) = Len(Answered(input))

\* ------------------------------------------ "initialized" notification (C13)

\* The line at (1-based) index k is a request whose method is "initialized".
IsInitializedLine(k) ==
    input[k].kind = "request" /\ input[k].req.Method = "initialized"

\* What C13 asks of every state: no response written answers an
\* "initialized" request, and what is written is exactly what the other
\* lines call for.
NoNotificationReply ==
    /\ Len(out) = Len(Answered(Handled))
    /\ \A k \in DOMAIN out :
           /\ out[k].id # <<"20">>
           /\ Answered(Handled)[k].kind = "request" =>
                  Answered(Handled)[k].req.Method # "initialized"
    /\ spc \notin {"crashed"}

\* What C13 asks of the step that reads an "initialized" request: it is
\* accepted, nothing is written, and nothing the server or the runner holds
\* changes, so every later request is handled from the same state as if the
\* line had not been there.
NotificationStep ==
    (pos' # pos /\ IsInitializedLine(pos + 1)) =>
        /\ pos' = pos + 1
        /\ spc' = "scan"
        /\ UNCHANGED <<sb, input, out, initialized, spc, req, agents, rc, results,
                       errors, wg, contextBuilder, act>>

\* C13: a request whose method is "initialized", with or without an id, is
\* accepted and produces no response line, whether it arrives before or
\* after "initialize", and leaves the state from which later requests are
\* answered untouched.
C13_InitializedSilent == []NoNotificationReply /\ [][NotificationStep]_vars

\* C13 witness: serve ended after "initialize" and then an "initialized"
\* request with an id, having written only the response to "initialize".
C13_Witness ==
    /\ spc = "done"
    /\ Len(input) = 2
    /\ input[1].req.Method = "initialize"
    /\ IsInitializedLine(2) /\ input[2].req.ID = <<"20">>
    /\ initialized
    /\ Len(out) = 1 /\ out[1].id = <<"1">>

\* ------------------------------------------------- lenient lifecycle (C14)

\* Whether a marshalled response is one handler's answer: a result, or an
\* error with a code of the dispatch (method or tool not found, invalid
\* params) rather than a refusal to serve.
NotRefused(m) ==
    \/ m.hasResult /\ ~m.hasError
    \/ m.hasError /\ ~m.hasResult
       /\ m.error[1].Code \in {ErrMethodNotFound, ErrInvalidParams}

\* What C14 asks of every state of a session "r, initialize, r": the flag is
\* set exactly when an "initialize" request has been handled; no request is
\* refused, before or after it; and once the session is over the answer to r
\* before "initialize" is identical to the answer to r after it (for a call
\* that runs agents, whose text is the language model's, both are tool
\* results).
SameBeforeAndAfter ==
    /\ initialized = (\E k \in 1..pos : input[k].req.Method = "initialize")
    /\ \A k \in DOMAIN out : NotRefused(out[k])
    /\ spc # "crashed"
    /\ (spc = "done" =>
            IF input[1].req.Method = "initialized" THEN Len(out) = 1
            ELSE /\ Len(out) = 3
                 /\ out[2].id = <<"1">> /\ out[2].result[1].kind = "initialize"
                 /\ IF CallsAgents(input[1].req)
                        THEN /\ out[1].hasResult /\ out[3].hasResult
                             /\ out[1].result[1].kind = "tools/call"
                             /\ out[3].result[1].kind = "tools/call"
                             /\ out[1].id = out[3].id
                    ELSE out[3] = out[1])

\* What C14 asks of every step: the flag changes only from false to true,
\* and only when an "initialize" request is read.
FlagOnlyRises ==
    initialized' # initialized =>
        /\ ~initialized /\ initialized'
        /\ pos' = pos + 1
        /\ input[pos + 1].kind = "request"
        /\ input[pos + 1].req.Method = "initialize"

\* C14: the server never rejects a request because "initialize" has not been
\* received: for every method and parameter value the response produced
\* before "initialize" is identical to the one produced for the same request
\* after it, and the initialized flag only ever changes from false to true,
\* on "initialize".
C14_LenientLifecycle == []SameBeforeAndAfter /\ [][FlagOnlyRises]_vars

\* C14 witness: read_file was answered with the file's content before
\* "initialize", while the flag was still false, and identically after it.
C14_Witness ==
    /\ spc = "done" /\ initialized
    /\ input[1].req.Params.Name = "read_file"
    /\ input[1].req.Params.Arguments.path = <<"a">>
    /\ Len(out) = 3
    /\ out[1].hasResult /\ ~out[1].result[1].call.IsError
    /\ out[3] = out[1]

\* ------------------------------------------- isError of agent tools (C15)

\* An invocation that failed: Runner.Invoke returned an error (unknown agent,
\* LLM error) or a result without success (iteration ceiling).
InvocationFailedAt(a) ==
    a.ret # <<>> /\ (a.ret[1].err # <<>> \/ ~a.ret[1].result[1].Success)

\* What C15 asks of the step that answers an invoke_agent or invoke_parallel
\* call: one result response is written, and its isError is true exactly
\* when the invocation, or at least one of the batch's invocations, failed;
\* an invocation that named no registered agent counts as failed.
AgentToolReply ==
    (spc = "call" /\ spc' = "scan") =>
        /\ Len(out') = Len(out) + 1
        /\ out'[Len(out')].hasResult /\ ~out'[Len(out')].hasError
        /\ out'[Len(out')].result[1].kind = "tools/call"
        /\ out'[Len(out')].result[1].call.IsError
               = (\E i \in DOMAIN act : InvocationFailedAt(act[i]))
        /\ \A i \in DOMAIN act :
               /\ act[i].ret # <<>>
               /\ act[i].agent \notin DOMAIN agents => InvocationFailedAt(act[i])

\* C15: a tools/call of invoke_agent or invoke_parallel returns a result
\* whose isError is true whenever the underlying invocation failed (unknown
\* agent, LLM error, iteration ceiling) or, for invoke_parallel, at least
\* one sub-agent result has success false, and false when the single agent,
\* or every sub-agent, succeeded.
C15_AgentToolIsError == [][AgentToolReply]_vars

\* C15 witness: an invoke_parallel over "x,y" was answered with isError true
\* and a text that reports one agent as succeeded and the other as failed.
C15_Witness ==
    /\ spc = "done"
    /\ input[1].req.Params.Arguments.agents = <<"x", ",", "y">>
    /\ Len(out) = 1
    /\ out[1].result[1].call.IsError
    /\ CountPiece(out[1].result[1].call.Text, "SUCCESS") = 1
    /\ CountPiece(out[1].result[1].call.Text, "FAILED") = 1

\* ---------------------------------------- sandbox failures over MCP (C16)

\* The tools of the server that go to the sandbox.
SandboxTools == {"read_file", "glob_files", "grep_files", "run_command"}

\* The request is a well-formed tools/call of a sandbox tool.
IsSandboxCall(r) ==
    r.Method = "tools/call" /\ r.Params.valid /\ r.Params.Name \in SandboxTools

\* An error of a sandbox primitive as text (<<>> for none).
ReadError(r) == IF r.err # "" THEN <<r.err>> ELSE <<>>

\* The error the sandbox returns for a request under an environment (<<>>
\* when the call does not reach the sandbox or the sandbox succeeds): a path
\* outside the workspace, a missing, oversized or directory target, a glob or
\* regular expression that does not compile, a failed walk, a process that
\* did not start.
SandboxError(r, env) ==
    IF ~IsSandboxCall(r) THEN <<>>
    ELSE IF r.Params.Name = "read_file"
        THEN (IF r.Params.Arguments.path = <<>> THEN <<>>
              ELSE ReadError(ReadFile(r.Params.Arguments.path, env.stat)))
    ELSE IF r.Params.Name = "glob_files"
        THEN (IF r.Params.Arguments.pattern = <<>> THEN <<>>
              ELSE GlobFiles(r.Params.Arguments.pattern, env.glob).err)
    ELSE IF r.Params.Name = "grep_files"
        THEN (IF r.Params.Arguments.pattern = <<>> THEN <<>>
              ELSE GrepFiles(r.Params.Arguments.pattern,
                             r.Params.Arguments.file_pattern, env.grep).err)
    ELSE (IF r.Params.Arguments.command = <<>> THEN <<>>
          ELSE RunShell(r.Params.Arguments.command, env.proc).err)

\* The environments that differ in what a sandbox tool consults: the
\* filesystem's answer to os.Stat for read_file, to filepath.Glob for
\* glob_files, to the walk for grep_files, and the shell for run_command.
EnvsOf(tool) ==
    IF tool = "read_file" THEN {[DefaultEnv EXCEPT !.stat = st] : st \in StatOutcomes}
    ELSE IF tool = "glob_files" THEN {[DefaultEnv EXCEPT !.glob = g] : g \in GlobOutcomes}
    ELSE IF tool = "grep_files" THEN {[DefaultEnv EXCEPT !.grep = g] : g \in GrepOutcomes}
    ELSE {[DefaultEnv EXCEPT !.proc = pr] : pr \in ProcOutcomes}

\* What C16 asks of every state: every well-formed call of a sandbox tool
\* dealt with so far was answered with a result, never an error object, and
\* serve stopped only at the end of the input or at an oversized line.
SandboxCallsGetResults ==
    /\ Len(out) = Len(Answered(Handled))
    /\ \A k \in DOMAIN out :
           (Answered(Handled)[k].kind = "request"
            /\ IsSandboxCall(Answered(Handled)[k].req)) =>
               /\ out[k].hasResult /\ ~out[k].hasError
               /\ out[k].result[1].kind = "tools/call"
    /\ spc # "crashed"
    /\ (spc = "done" => pos = Len(input))
    /\ (spc = "failed" => pos < Len(input) /\ input[pos + 1].kind = "oversized")

\* What C16 asks of the step that handles a line: if the sandbox fails under
\* the environment of that step (any of those the tool consults), the response written is a result with the
\* request's id whose isError is true and whose text is "Error: " and the
\* sandbox's error, and serve goes on to scan the next line.
SandboxFailureReply ==
    (pos' = pos + 1 /\ IsSandboxCall(input[pos + 1].req)) =>
    \A env \in EnvsOf(input[pos + 1].req.Params.Name) :
        (SandboxError(input[pos + 1].req, env) # <<>> /\ ServeLine(env)) =>
            /\ Len(out') = Len(out) + 1
            /\ out'[Len(out')].id = input[pos + 1].req.ID
            /\ out'[Len(out')].hasResult /\ ~out'[Len(out')].hasError
            /\ out'[Len(out')].result[1].kind = "tools/call"
            /\ out'[Len(out')].result[1].call.IsError
            /\ out'[Len(out')].result[1].call.Text
                   = <<"Error: ">> \o SandboxError(input[pos + 1].req, env)
            /\ spc' = "scan"

\* C16: a sandbox failure reached through tools/call (path escape, missing
\* or oversized file, directory target, invalid glob or regex, failed walk,
\* process that did not start) is always reported as a JSON-RPC result whose
\* content carries the error text and whose isError is true, never as a
\* JSON-RPC error object, and the server keeps serving the following lines.
C16_SandboxFailureIsResult ==
    []SandboxCallsGetResults /\ [][SandboxFailureReply]_vars

\* C16 witness: read_file of "../a" was answered with an isError result
\* carrying the path-escape error, and the tools/list request after it with
\* its result.
C16_Witness ==
    /\ spc = "done"
    /\ Len(input) = 2 /\ Len(out) = 2
    /\ input[1].req.Params.Name = "read_file"
    /\ input[1].req.Params.Arguments.path = <<".", ".", "/", "a">>
    /\ out[1].hasResult /\ ~out[1].hasError
    /\ out[1].result[1].call.IsError
    /\ out[1].result[1].call.Text = <<"Error: ", "path outside workspace">>
    /\ input[2].req.Method = "tools/list"
    /\ out[2].hasResult /\ out[2].result[1].kind = "tools/list"

\* ---------------------------------------------- unsupported methods (C17)

\* The methods handleRequest has a case for.
DispatchTable ==
    {"initialize", "initialized", "tools/list", "tools/call", "resources/list",
     "resources/read", "prompts/list", "prompts/get"}

\* The methods C17 is about: the two unsupported ones, every method outside
\* the dispatch table, and the two lists.
Unsupported(method) ==
    method \in {"resources/read", "prompts/get"} \/ method \notin DispatchTable

EmptyListed(method) == method \in {"resources/list", "prompts/list"}

\* What C17 asks of the step that handles such a request: exactly one
\* response with the request's id is written; for an unsupported or unknown
\* method it carries an error with code -32601 and no result, for
\* resources/list and prompts/list a result with an empty list and no error;
\* and nothing the server or the runner holds changes.
UnsupportedStep ==
    (pos' # pos /\ input[pos + 1].kind = "request"
     /\ (Unsupported(input[pos + 1].req.Method)
         \/ EmptyListed(input[pos + 1].req.Method))) =>
        /\ Len(out') = Len(out) + 1
        /\ SubSeq(out', 1, Len(out)) = out
        /\ out'[Len(out')].id = input[pos + 1].req.ID
        /\ IF input[pos + 1].req.Method = "resources/list"
               THEN /\ out'[Len(out')].hasResult /\ ~out'[Len(out')].hasError
                    /\ out'[Len(out')].result[1].kind = "resources/list"
                    /\ out'[Len(out')].result[1].Resources = <<>>
           ELSE IF input[pos + 1].req.Method = "prompts/list"
               THEN /\ out'[Len(out')].hasResult /\ ~out'[Len(out')].hasError
                    /\ out'[Len(out')].result[1].kind = "prompts/list"
                    /\ out'[Len(out')].result[1].Prompts = <<>>
           ELSE /\ out'[Len(out')].hasError /\ ~out'[Len(out')].hasResult
                /\ out'[Len(out')].error[1].Code = -32601
        /\ UNCHANGED <<sb, input, initialized, spc, req, agents, rc, results,
                       errors, wg, contextBuilder, act>>

FinalResponseStep ==
    \A w \in DOMAIN act : \A resp \in LLMResponses :
        (AgentComplete(w, resp) /\ resp.err = <<>>
         /\ (Len(resp.ToolCalls) = 0 \/ resp.Done)) =>
            /\ act[w].i < maxIterations
            /\ act'[w].pc = "ret"
            /\ act'[w].ret
                   = <<[result |-> <<[Agent |-> agents[act[w].agent].name,
                                      Input |-> act[w].input,
                                      Output |-> resp.Content,
                                      Success |-> TRUE,
                                      Error |-> <<>>]>>,
                        err |-> <<>>]>>
            /\ act'[w].ncalls = act[w].ncalls + 1
            /\ act'[w].nexec = act[w].nexec

\* C18: on any iteration below the ceiling, a response with no tool calls,
\* or with done = true, ends EmbeddedAgent.Invoke immediately with a result
\* of success true carrying the agent's name, the caller's input and the
\* response's text; no tool is executed for that response.
C18_LoopCompletion == [][FinalResponseStep]_vars

\* C18 witness: after two iterations that ran two tools each, a third
\* response with done = true and tool calls of its own ended the loop with
\* its text "o3", and the count of executed tools stayed at four.
C18_Witness ==
    \E w \in DOMAIN act :
        /\ act[w].pc = "ret"
        /\ act[w].ncalls = 3 /\ act[w].nexec = 4
        /\ act[w].ret[1].err = <<>>
        /\ act[w].ret[1].result[1].Success
        /\ act[w].ret[1].result[1].Output = <<"o3">>
        /\ act[w].ret[1].result[1].Input = act[w].input

\* -------------------------------------------- LLM completion failure (C19)

\* The error Runner.Invoke returns for a failed completion, by its text.
LLMFailureText(llmErr) ==
    <<"agent invocation failed: ", "LLM completion failed: ">> \o llmErr

\* The activation's Runner.Invoke returned the error of a failed completion.
LLMFailedAt(a) ==
    /\ a.ret # <<>>
    /\ HasPrefix(a.ret[1].err, <<"agent invocation failed: ", "LLM completion failed: ">>)

\* What C19 asks of every state of a batch: the slot of a task whose
\* completion failed holds a result for that task with success false whose
\* error field is the failure.
LLMFailureInSlot ==
    rc.kind = "parallel" =>
        \A i \in DOMAIN results :
            (results[i] # <<>> /\ LLMFailedAt(act[i])) =>
                results[i][1] = [Agent |-> rc.tasks[i].Agent,
                                 Input |-> rc.tasks[i].Input,
                                 Output |-> <<>>,
                                 Success |-> FALSE,
                                 Error |-> act[i].ret[1].err]

\* What C19 asks of every step: a completion that fails ends the invocation
\* at once, Runner.Invoke returning no result and an error that wraps the
\* failure; and the answer to a single invoke_agent whose completion failed
\* is a tool result with isError true whose text is that error.
LLMFailureStep ==
    /\ \A w \in DOMAIN act : \A resp \in LLMResponses :
           (AgentComplete(w, resp) /\ resp.err # <<>>) =>
               /\ act'[w].pc = "ret"
               /\ act'[w].ret = <<[result |-> <<>>, err |-> LLMFailureText(resp.err)]>>
               /\ act'[w].nexec = act[w].nexec
    /\ (spc = "call" /\ spc' = "scan" /\ rc.kind = "invoke" /\ LLMFailedAt(act[1])) =>
           /\ out'[Len(out')].hasResult
           /\ out'[Len(out')].result[1].call.IsError
           /\ out'[Len(out')].result[1].call.Text = <<"Error: ">> \o act[1].ret[1].err

\* C19 (as amended): when the LLMClient returns an error during an agent
\* loop, a single Runner.Invoke ends with no AgentResult and an error that
\* wraps the failure (invoke_agent reports it as an isError result); inside
\* a batch that error is folded into the task's AgentResult, whose success is
\* false and whose error field carries the failure.
C19_LLMFailure == []LLMFailureInSlot /\ [][LLMFailureStep]_vars

\* C19 witness: in a batch over "x,y" the completion of x failed, and its
\* slot holds a failed result whose error carries "llm down", while y
\* succeeded.
C19_Witness ==
    /\ ParallelReturned
    /\ Len(rc.tasks) = 2
    /\ LLMFailedAt(act[1])
    /\ ~results[1][1].Success
    /\ results[1][1].Error = LLMFailureText(<<"llm down">>)
    /\ results[2][1].Success

\* C19 (as stated): when the LLMClient returns an error, the invocation ends
\* with an AgentResult whose success is false and whose error field carries
\* the failure, for a single invoke and inside a batch.
C19_Original ==
    /\ (rc.kind = "invoke" =>
            \A w \in DOMAIN act :
                LLMFailedAt(act[w]) =>
                    /\ act[w].ret[1].result # <<>>
                    /\ ~act[w].ret[1].result[1].Success
                    /\ act[w].ret[1].result[1].Error # <<>>)
    /\ (rc.kind = "parallel" =>
            \A i \in DOMAIN results :
                (results[i] # <<>> /\ LLMFailedAt(act[i])) =>
                    /\ ~results[i][1].Success
                    /\ results[i][1].Error # <<>>)

\* --------------------------------------------------- unknown agent (C20)

\* What C20 asks of every state: an activation of Runner.Invoke for a name
\* that is not registered never enters the agent loop, requests no
\* completion, executes no tool and builds no message; what it returns is no
\* result and the not-found error.
UnknownAgentIdle ==
    \A w \in DOMAIN act :
        act[w].agent \notin DOMAIN agents =>
            /\ act[w].pc # "loop"
            /\ act[w].ncalls = 0 /\ act[w].nexec = 0
            /\ act[w].messages = <<>>
            /\ (act[w].ret # <<>> =>
                    /\ act[w].ret[1].result = <<>>
                    /\ act[w].ret[1].err = <<"agent not found: ">> \o act[w].agent)

\* What C20 asks of the step on which Runner.Invoke looks the name up: for a
\* name that is not registered it returns to its caller at once, with no
\* result and the not-found error.
UnknownAgentStep ==
    \A w \in DOMAIN act :
        (RunnerInvoke(w) /\ act[w].agent \notin DOMAIN agents) =>
            /\ act'[w].pc = "ret"
            /\ act'[w].ret = <<[result |-> <<>>,
                                err |-> <<"agent not found: ">> \o act[w].agent]>>

\* C20: Runner.Invoke with an agent name that is not in the registry returns
\* an agent-not-found error to its immediate caller, returns no AgentResult,
\* and performs no LLM completion and no tool execution.
C20_AgentNotFound == []UnknownAgentIdle /\ [][UnknownAgentStep]_vars

\* C20 witness: Runner.Invoke, called by invoke_agent for the unregistered
\* "z", has returned the not-found error and no result, without a completion.
C20_Witness ==
    /\ rc.kind = "invoke"
    /\ act[1].agent = <<"z">> /\ act[1].pc = "ret"
    /\ act[1].ret[1].result = <<>>
    /\ act[1].ret[1].err = <<"agent not found: ", "z">>
    /\ act[1].ncalls = 0 /\ act[1].nexec = 0

\* -------------------------------------------------- transport failures (C21)

\* A step in which the output stream refuses a response.
WriteFailed == (\E env \in Envs : ServeLineWriteFails(env)) \/ ServeReplyWriteFails

\* A step in which the input stream fails or delivers a line too long.
ReadFailed == ServeReadFails \/ ServeTooLong

\* A failed write stops the serve loop.
WriteFailureStops == WriteFailed => spc' = "failed"

\* A failed read stops the serve loop.
ReadFailureStops == ReadFailed => spc' = "failed"

\* Nothing but a failed read or write stops the serve loop.
OnlyTransportStops ==
    (spc \in {"scan", "call"} /\ spc' \in {"failed", "crashed"}) =>
        WriteFailed \/ ReadFailed

\* C21: transport failures are fatal and the only fatal failures: a step in
\* which writing a response fails, or reading the input fails, stops the
\* serve loop, and no other step stops it with a failure.
C21_TransportFatal ==
    [][WriteFailureStops /\ ReadFailureStops /\ OnlyTransportStops]_vars

\* ------------------------------------------------------- cancellation (C22)

\* Once the context is cancelled, a line the scanner delivers is not handed to
\* a handler: serve leaves its loop with the context's error and the runner is
\* not entered.
NoDispatchAfterCancel ==
    (ctx = "cancelled" /\ pos' # pos) =>
        /\ spc' = "cancelled"
        /\ UNCHANGED <<initialized, req, runVars>>

\* Once the context is cancelled, nothing more is written.
NoResponseAfterCancel == ctx = "cancelled" => out' = out

\* C22: if the serve context is cancelled while the server is in its read
\* loop, serve leaves the loop with the context's error instead of serving
\* on: after the cancellation no further line is dispatched to a handler and
\* no further response is written.
C22_Cancellation == [][NoDispatchAfterCancel /\ NoResponseAfterCancel]_vars

\* ---------------------------------------------------- shell exit status (C23)

\* The nil *CommandResult RunCommand returns with an error.
NoCommandResult ==
    [Command |-> <<>>, Args |-> <<>>, Stdout |-> <<>>, Stderr |-> <<>>, ExitCode |-> 0]

\* C23: RunShell returns a CommandResult and no error whenever the process
\* was started, with ExitCode the process's exit code and Success() true
\* exactly when that code is 0; it returns an error and no CommandResult only
\* when the process could not be started.
C23_ExitStatusIsData ==
    (sb.op = "shell" /\ sb.done) =>
        /\ sb.env.started =>
              /\ sb.ret.err = <<>>
              /\ sb.ret.result # NoCommandResult
              /\ sb.ret.result.Command = <<"sh">>
              /\ sb.ret.result.ExitCode = sb.env.exit
              /\ Success(sb.ret.result) <=> (sb.env.exit = 0)
        /\ ~sb.env.started =>
              /\ sb.ret.err = <<"command execution failed">>
              /\ sb.ret.result = NoCommandResult
        /\ (sb.ret.err # <<>>) <=> ~sb.env.started

\* A command that was started and exited with a non-zero code has been
\* reported.
C23_Witness ==
    /\ sb.op = "shell" /\ sb.done
    /\ sb.env.started /\ sb.env.exit # 0
    /\ sb.ret.err = <<>> /\ sb.ret.result.ExitCode = 1
    /\ ~Success(sb.ret.result)

\* ------------------------------------------------------ one chokepoint (C24)

\* Whether the resolve check accepts a location.
Resolves(loc) == ~validatePath(loc).err

\* C24: every primitive passes its target through the resolve check before
\* it touches the filesystem, so no primitive (read, write, glob, grep,
\* directory listing, shell) accesses a location that resolve would reject.
C24_SingleChokepoint ==
    sb.done => \A loc \in sb.touched : Resolves(loc)

\* ------------------------------------------------ ExecuteOrchestrated (C25)

\* ExecuteOrchestrated has returned.
OrchestratedReturned == orch.pc = "returned"

\* C25: for mode "parallel" or "sequential" ExecuteOrchestrated returns an
\* OrchestratedResult with one AgentResult per name in task.Agents, in that
\* order, and AllSuccessful() is true exactly when every one of them has
\* success = true; for any other mode it returns an error and invokes no
\* agent.
C25_ExecuteOrchestrated ==
    IF orch.task.Mode \in {"parallel", "sequential"}
        THEN OrchestratedReturned =>
                 /\ orch.ret[1].err = <<>>
                 /\ orch.ret[1].result # <<>>
                 /\ LET rs == orch.ret[1].result[1].Results IN
                    /\ Len(rs) = Len(orch.task.Agents)
                    /\ \A i \in DOMAIN rs :
                           rs[i] # <<>> /\ rs[i][1].Agent = orch.task.Agents[i]
                    /\ AllSuccessful(orch.ret[1].result[1])
                           <=> \A i \in DOMAIN rs : rs[i] # <<>> /\ rs[i][1].Success
    ELSE /\ act = <<>> /\ rc = NoCallInProgress /\ results = <<>>
         /\ OrchestratedReturned =>
                /\ orch.ret[1].err = <<"unknown mode: ", orch.task.Mode>>
                /\ orch.ret[1].result = <<>>

\* A parallel run of "z" (not registered) and "x" has returned: the failed
\* result comes first, the successful one second, and AllSuccessful is false.
C25_Witness ==
    /\ OrchestratedReturned
    /\ orch.task.Mode = "parallel"
    /\ orch.task.Agents = <<<<"z">>, <<"x">>>>
    /\ orch.ret[1].result # <<>>
    /\ Len(orch.ret[1].result[1].Results) = 2
    /\ ~orch.ret[1].result[1].Results[1][1].Success
    /\ orch.ret[1].result[1].Results[2][1].Success
    /\ ~AllSuccessful(orch.ret[1].result[1])

\* ---------------------------------------------------- message history (C26)

\* The tool-role messages answering the calls of one response: one per call,
\* in the order of the calls, each with its call's name and id.
RECURSIVE AnswersCalls(_, _)
AnswersCalls(msgs, calls) ==
    IF calls = <<>> THEN msgs = <<>>
    ELSE /\ msgs # <<>>
         /\ Head(msgs).Role = "tool"
         /\ Head(msgs).Name = Head(calls).Name
         /\ Head(msgs).ToolID = Head(calls).ID
         /\ AnswersCalls(Tail(msgs), Tail(calls))

\* Whether msgs is, for each response of resps in order, one assistant
\* message with the response's text followed by the answers to its calls.
RECURSIVE FollowsIterations(_, _)
FollowsIterations(msgs, resps) ==
    IF resps = <<>> THEN msgs = <<>>
    ELSE LET n == Len(Head(resps).ToolCalls) IN
         /\ Len(msgs) >= 1 + n
         /\ msgs[1] = Message("assistant", Head(resps).Content, "", "")
         /\ AnswersCalls(SubSeq(msgs, 2, 1 + n), Head(resps).ToolCalls)
         /\ FollowsIterations(SubSeq(msgs, 2 + n, Len(msgs)), Tail(resps))

\* The history a loop would pass to its next completion has the shape the
\* iterations so far give it.
HistoryShape ==
    \A w \in DOMAIN act :
        act[w].pc = "loop" =>
            /\ Len(act[w].hist) = act[w].i
            /\ Len(act[w].messages) >= 2
            /\ act[w].messages[1]
                   = Message("system", agents[act[w].agent].instructions, "", "")
            /\ act[w].messages[2] = Message("user", act[w].input, "", "")
            /\ FollowsIterations(SubSeq(act[w].messages, 3, Len(act[w].messages)),
                                 act[w].hist)

\* While a loop runs, its history only grows at the end.
AppendOnly ==
    \A w \in DOMAIN act :
        (act[w].pc = "loop" /\ w \in DOMAIN act' /\ act'[w].pc = "loop") =>
            /\ Len(act'[w].messages) >= Len(act[w].messages)
            /\ SubSeq(act'[w].messages, 1, Len(act[w].messages)) = act[w].messages

\* C26: the history passed to the k-th completion of an agent loop is
\* [system: instructions, user: input] followed, for each earlier iteration in
\* order, by one assistant message with that iteration's response text and
\* then one tool-role message per tool call of that iteration, in the order of
\* the calls, each with the name and the id of the call it answers; messages
\* are only ever appended.
C26_HistoryShape == []HistoryShape /\ [][AppendOnly]_vars

\* A loop is about to ask for its third completion after two iterations that
\* asked for different tool calls.
C26_Witness ==
    /\ act # <<>>
    /\ act[1].pc = "loop" /\ act[1].i = 2
    /\ act[1].hist[1].ToolCalls = LoopToolCalls
    /\ act[1].hist[2].ToolCalls = ToolCallList
    /\ Len(act[1].messages) = 2 + (1 + 3) + (1 + 2)
    /\ act[1].messages[5].ToolID = "c4"
    /\ act[1].messages[9].ToolID = "c2"

\* ---------------------------------------------------- failed tool calls (C27)

\* Whether the agent's tool list has a tool of that name.
HasTool(tools, name) == \E k \in DOMAIN tools : tools[k] = name

\* An iteration whose response asks for tool calls answers every call, the
\* failed ones with their error as text, and leaves the loop running.
FailedCallStep ==
    \A w \in DOMAIN act, resp \in LoopResponses :
        (resp.err = <<>> /\ ~IsFinal(resp) /\ AgentComplete(w, resp)) =>
            /\ act'[w].pc = "loop"
            /\ act'[w].i = act[w].i + 1
            /\ act'[w].ret = <<>>
            /\ act'[w].nexec = act[w].nexec + Len(resp.ToolCalls)
            /\ Len(act'[w].messages) = Len(act[w].messages) + 1 + Len(resp.ToolCalls)
            /\ \A j \in DOMAIN resp.ToolCalls :
                   LET tc == resp.ToolCalls[j]
                       m == act'[w].messages[Len(act[w].messages) + 1 + j]
                       r == executeTool(agents[act[w].agent].tools, tc) IN
                   /\ m.Role = "tool" /\ m.ToolID = tc.ID
                   /\ ~HasTool(agents[act[w].agent].tools, tc.Name) =>
                          m.Content = <<"Error: ", "unknown tool: ", tc.Name>>
                   /\ r.err # <<>> => m.Content = <<"Error: ">> \o r.err
                   /\ r.err = <<>> => m.Content = r.json

\* C27: a tool call whose name matches none of the agent's tools, or whose
\* execution returns an error, does not end the agent loop: a tool-role
\* message with the error as text is appended for that call, the remaining
\* calls of the same response are still executed, and the loop goes on to
\* its next iteration.
C27_ToolErrorsFolded == [][FailedCallStep]_vars

\* A loop has been through an iteration whose first call named a tool the
\* agent does not have and whose second was refused by the sandbox: both are
\* answered with errors, the third call has run, and the loop goes on.
C27_Witness ==
    /\ act # <<>>
    /\ act[1].pc = "loop" /\ act[1].i = 1
    /\ act[1].hist[1].ToolCalls = LoopToolCalls
    /\ Len(act[1].messages) = 6
    /\ act[1].messages[4].Content = <<"Error: ", "unknown tool: ", "write">>
    /\ act[1].messages[5].Content = <<"Error: ", "path outside workspace">>
    /\ act[1].messages[6].Content = JSONString(FileContent)

\* -------------------------------------------------- history isolation (C28)

\* Whether a message is one that an iteration of invocation v appends: an
\* assistant message with the text of a response given to v, or a tool
\* message answering a call asked of v.
AppendedBy(m, v) ==
    \/ /\ m.Role = "assistant"
       /\ \E r \in WorkerResponses(v) : r.Content # <<>> /\ m.Content = r.Content
    \/ /\ m.Role = "tool"
       /\ \E j \in DOMAIN WorkerToolCalls(v) : m.ToolID = WorkerToolCalls(v)[j].ID

\* The history of each running invocation starts with its own agent's
\* instructions and its own input, and holds after them only messages of its
\* own iterations, none that another invocation appended.
OwnMessagesOnly ==
    \A w \in DOMAIN act :
        act[w].pc = "loop" =>
            /\ Len(act[w].messages) = 2 + 3 * act[w].i
            /\ act[w].messages[1]
                   = Message("system", agents[act[w].agent].instructions, "", "")
            /\ act[w].messages[2] = Message("user", act[w].input, "", "")
            /\ \A k \in 3..Len(act[w].messages) :
                   /\ AppendedBy(act[w].messages[k], w)
                   /\ \A v \in DOMAIN act \ {w} : ~AppendedBy(act[w].messages[k], v)

\* C28: each agent-loop invocation owns its message history: when the same
\* agent is invoked several times concurrently (invoke_parallel with agents
\* "x,x"), the messages one invocation passes to the model never contain a
\* message appended by another, under every interleaving.
C28_HistoryIsolated == OwnMessagesOnly

\* Two concurrent invocations of "x" are both in their loops, the second one
\* iteration ahead of the first, each with a history of its own.
C28_Witness ==
    /\ Len(act) = 2
    /\ act[1].agent = <<"x">> /\ act[2].agent = <<"x">>
    /\ act[1].pc = "loop" /\ act[2].pc = "loop"
    /\ act[1].i = 1 /\ act[2].i = 2
    /\ act[1].messages[3].Content = <<"t", "1">>
    /\ act[2].messages[6].Content = <<"t", "2">>

\* ------------------------------------------------------ fixed registry (C29)

\* The registry holds one agent per configured agent, under its unique name,
\* with the configured instructions and tool list.
RegistryAsBuilt ==
    /\ DOMAIN agents = {AgentConfigs[i].Name : i \in DOMAIN AgentConfigs}
    /\ Cardinality(DOMAIN agents) = Len(AgentConfigs)
    /\ \A i \in DOMAIN AgentConfigs :
           /\ agents[AgentConfigs[i].Name].name = AgentConfigs[i].Name
           /\ agents[AgentConfigs[i].Name].instructions = AgentConfigs[i].Instructions
           /\ agents[AgentConfigs[i].Name].tools = AgentConfigs[i].Tools

\* C29: the registry is fixed after construction: the set of registered
\* names (one per configured agent, names unique) and each agent's
\* instructions and tool list are as NewRunner built them, and no later
\* operation (Invoke, InvokeParallel, InvokeSequential, ExecuteOrchestrated,
\* ListAgents, any MCP request) changes them.
C29_RegistryFixed == []RegistryAsBuilt /\ [][agents' = agents]_vars

\* A server has answered a batch that named an unregistered agent and then a
\* listing of the agents.
C29_Witness ==
    /\ spc = "scan" /\ pos = 2 /\ Len(out) = 2
    /\ input[1].req.Params.Name = "invoke_parallel"
    /\ input[2].req.Params.Name = "list_agents"
    /\ out[2].hasResult
    /\ agents = NewRunner

\* ----------------------------------------------------- tool confinement (C30)

\* The five tool names a configuration may give an agent.
KnownTools == {"read", "write", "glob", "grep", "shell"}

\* The tool names the configuration gives the agent called name.
ConfiguredTools(name) ==
    UNION {{AgentConfigs[i].Tools[k] : k \in DOMAIN AgentConfigs[i].Tools} :
           i \in {j \in DOMAIN AgentConfigs : AgentConfigs[j].Name = name}}

\* Every sandbox primitive an agent loop has run is that of a tool on the
\* agent's configured list.
OnlyConfiguredRun ==
    \A w \in DOMAIN act : act[w].ops \subseteq ConfiguredTools(act[w].agent)

\* An iteration runs no primitive but those of calls naming a tool on the
\* agent's list, and answers a call naming another known tool with the
\* unknown-tool error.
ConfinedStep ==
    \A w \in DOMAIN act, resp \in LoopResponses :
        (resp.err = <<>> /\ ~IsFinal(resp) /\ AgentComplete(w, resp)) =>
            /\ act'[w].ops \ act[w].ops \subseteq
                   {resp.ToolCalls[j].Name : j \in DOMAIN resp.ToolCalls}
                   \cap ConfiguredTools(act[w].agent)
            /\ \A j \in DOMAIN resp.ToolCalls :
                   (resp.ToolCalls[j].Name
                        \in KnownTools \ ConfiguredTools(act[w].agent)) =>
                       /\ resp.ToolCalls[j].Name \notin act'[w].ops \ act[w].ops
                       /\ act'[w].messages[Len(act[w].messages) + 1 + j].Content
                              = <<"Error: ", "unknown tool: ", resp.ToolCalls[j].Name>>

\* C30: during any agent loop the only sandbox operations executed are those
\* of tools named in the agent's configured tool list; a call naming one of
\* the five known tools that is not on the list (shell for an agent allowed
\* only read) executes nothing and yields an "unknown tool" error message.
C30_ToolConfinement == []OnlyConfiguredRun /\ [][ConfinedStep]_vars

\* Agent "x", allowed only read, has been asked for a read and a shell
\* command: the read ran, the shell did not and was answered with the error.
C30_Witness ==
    /\ act # <<>>
    /\ act[1].agent = <<"x">>
    /\ act[1].pc = "loop" /\ act[1].i = 1
    /\ act[1].hist[1].ToolCalls = ToolCallList
    /\ act[1].ops = {"read"}
    /\ act[1].messages[4].Content = JSONString(FileContent)
    /\ act[1].messages[5].Content = <<"Error: ", "unknown tool: ", "shell">>

====
